---- MODULE Spec2Model ----
(***************************************************************************)
(* StrideUp mobile: GPS distance accumulation and route geofencing.        *)
(*                                                                         *)
(* Two components accumulate distance from location fixes:                 *)
(*   - the useLocationTracking hook (app/hooks/use-location-tracking.ts),  *)
(*   - the TrackScreen component (app/(tabs)/track.tsx).                   *)
(* One of them is mounted in a behaviour (variable mounted); the other     *)
(* one's variables keep their initial values.                              *)
(*                                                                         *)
(* React state: setState(updater) puts the updater in the component's      *)
(* update queue; React calls the queued updaters in order when it renders. *)
(* The queue is a variable and applying its head is an action.  React's    *)
(* eager evaluation of an updater at dispatch time (empty queue) is the    *)
(* behaviour in which the head is applied right after it was queued.       *)
(*                                                                         *)
(* Geometry: positions lie on one meridian and latitude is measured in     *)
(* metres of arc (degrees * pi/180 * 6371e3).  With equal longitudes the   *)
(* Haversine formula gives h = sin^2(dLat/2) and                           *)
(* R * 2 * atan2(sqrt h, sqrt(1-h)) = R * |dLat|, the absolute difference  *)
(* of the two latitudes in this unit.  Floating-point rounding is not      *)
(* modelled.                                                               *)
(***************************************************************************)
EXTENDS Integers, Sequences, FiniteSets, TLC

VARIABLES
    mounted,          \* "hook" or "screen": the component instance of this behaviour
    state,            \* hook: useState<LocationTrackingState> (routeCoordinates, distance)
    lastLocation,     \* hook: lastLocation ref, <<>> for null, <<p>> for a point
    updateQueue,      \* hook: updates queued by setState, not yet applied
    routeCoordinates, \* screen: useState<GPSPoint[]>
    trackedDistance,  \* screen: useState(0)
    lastLocationRef,  \* screen: lastLocationRef, <<>> for null
    screenQueue,      \* screen: updates queued by the two setters, not yet applied
    fed,              \* number of processLocation calls so far
    resets,           \* number of reset/start/discard calls so far
    call,             \* the handler call or update application of the last step
    forwarded,        \* the points the last step passed to the update callback
    waypoints,        \* route challenge: RouteWaypoint[], sorted by order
    gpsTrack,         \* route challenge: the fixes recorded so far
    progress,         \* route challenge: result of checkWaypointProgress(waypoints, gpsTrack)
    measured,         \* distance primitive: the last pair of points and its two distances
    instances,        \* hook instances: state, lastLocation ref, update queue, isTracking
    backgroundPoints, \* module-level buffer of the background location task
    taskRegistered,   \* the background location task is receiving updates
    clock,            \* timestamp the location provider gives the next fix
    deliveries,       \* number of fixes delivered so far
    commands,         \* number of start/stop/reset/app-active calls so far
    hookCall,         \* the hook instance and operation of the last step
    builder,          \* route builder screen: open, waypoints (useState), addMode (useState)
    pendingWaypoints, \* route-store: _pendingWaypoints, <<>> for null, <<list>> otherwise
    consumed,         \* what the last consumePendingWaypoints() returned
    edits,            \* number of builder and store operations so far
    builderCall,      \* the builder or store operation of the last step
    activity,         \* activity context: useState<ActivityState> (activityId, status, times)
    timerRef,         \* activity context: timerRef holds an interval
    intervals,        \* activity context: number of intervals set and not cleared
    pendingPoints,    \* activity context: pendingPointsRef.current
    inflight,         \* activity context: operations awaiting a backend response
    added,            \* number of addGPSPoint calls so far
    created,          \* number of activities the backend has created
    requests,         \* number of context operations called so far
    actCall,          \* the context operation or backend response of the last step
    locationSubscription,
                      \* hook lifecycle: locationSubscription ref, <<>> for null
    subscriptions,    \* hook lifecycle: foreground subscriptions created and not removed
    startCalls,       \* hook lifecycle: startTracking calls at an await
    stopCalls,        \* hook lifecycle: stopTracking calls at an await
    watched,          \* number of foreground subscriptions created so far
    toggles,          \* number of changes of isTracking so far
    lifeCall          \* the operation of the last lifecycle step

accVars == <<mounted, state, lastLocation, updateQueue, routeCoordinates,
             trackedDistance, lastLocationRef, screenQueue, fed, resets, call,
             forwarded>>

routeVars == <<waypoints, gpsTrack, progress>>

geoVars == <<measured>>

trackVars == <<instances, backgroundPoints, taskRegistered, clock, deliveries,
               commands, hookCall>>

builderVars == <<builder, pendingWaypoints, consumed, edits, builderCall>>

activityVars == <<activity, timerRef, intervals, pendingPoints, inflight, added,
                  created, requests, actCall>>

lifeVars == <<locationSubscription, subscriptions, startCalls, stopCalls, watched,
              toggles, lifeCall>>

(***************************************************************************)
(* Bounds of the model and constants of the program.                       *)
(***************************************************************************)
MaxSamples == 3
MaxResets == 1
MaxWaypoints == 2
MaxTrack == 3
MaxDeliveries == 3
MaxCommands == 2
MaxClock == 2
MaxRoute == 3
MaxEdits == 6
MaxRequests == 4
MaxInFlight == 2
MaxActivities == 2
MaxPoints == 11
MaxTicks == 2
MaxToggles == 2

AccuracyLimit == 50
EarthRadius == 6371000
MinSegment == 2
MaxSegment == 100
DefaultRadius == 50
UPLOAD_BATCH_SIZE == 10

\* Latitudes of the fixes, in metres of arc.  Their pairwise distances are
\* 0, 2, 3, 97, 99, 100 and 102: below, on, between and above the two segment
\* limits.
Latitudes == {0, 3, 100, 102}

\* coords.accuracy of a fix: <<>> for null, <<a>> for a metres.
Accuracies == {<<>>, <<AccuracyLimit>>, <<AccuracyLimit + 1>>}

\* Location.LocationObject values delivered to processLocation: every latitude
\* with every accuracy, and one fix of accuracy 0 (a number that is falsy).
Locations ==
    [latitude : Latitudes, accuracy : Accuracies]
        \cup {[latitude |-> 3, accuracy |-> <<0>>]}

Abs(x) == IF x < 0 THEN -x ELSE x

\* JavaScript truthiness of a number | null.
Truthy(a) == a # <<>> /\ a[1] # 0

(***************************************************************************)
(* use-location-tracking.ts                                                *)
(***************************************************************************)
calculateDistance(point1, point2) == Abs(point2.latitude - point1.latitude)

\* const newPoint: GPSPoint = {...} of processLocation
GPSPointOf(location) ==
    [latitude |-> location.latitude, accuracy |-> location.accuracy]

\* Variants of the accuracy filter: the comparison inverted, and the limit
\* itself rejected.
SkipsInaccurate_inverted(newPoint) ==
    Truthy(newPoint.accuracy) /\ newPoint.accuracy[1] < AccuracyLimit

SkipsInaccurate_inclusive(newPoint) ==
    Truthy(newPoint.accuracy) /\ newPoint.accuracy[1] >= AccuracyLimit

\* if (newPoint.accuracy && newPoint.accuracy > 50) return;
SkipsInaccurate(newPoint) ==
    Truthy(newPoint.accuracy) /\ newPoint.accuracy[1] > AccuracyLimit

\* Variants of the updater: the segment assigned instead of added; the upper
\* limit included; the ref advanced only when the segment counted; an error
\* recorded for a dropped jump; a sample with a dropped segment left out of
\* the track; a missing ref read as the origin.
locationUpdater_assign(prev, ref, newPoint) ==
    LET segmentDistance == IF ref # <<>> THEN calculateDistance(ref[1], newPoint) ELSE 0
        newDistance ==
            IF ref # <<>> /\ segmentDistance > MinSegment /\ segmentDistance < MaxSegment
            THEN segmentDistance
            ELSE prev.distance
    IN  [state |-> [prev EXCEPT !.routeCoordinates = Append(@, newPoint),
                                !.distance = newDistance],
         ref |-> <<newPoint>>]

locationUpdater_inclusive(prev, ref, newPoint) ==
    LET segmentDistance == IF ref # <<>> THEN calculateDistance(ref[1], newPoint) ELSE 0
        newDistance ==
            IF ref # <<>> /\ segmentDistance > MinSegment /\ segmentDistance <= MaxSegment
            THEN prev.distance + segmentDistance
            ELSE prev.distance
    IN  [state |-> [prev EXCEPT !.routeCoordinates = Append(@, newPoint),
                                !.distance = newDistance],
         ref |-> <<newPoint>>]

locationUpdater_freeze(prev, ref, newPoint) ==
    LET segmentDistance == IF ref # <<>> THEN calculateDistance(ref[1], newPoint) ELSE 0
        counted == ref # <<>> /\ segmentDistance > MinSegment /\ segmentDistance < MaxSegment
    IN  [state |-> [prev EXCEPT !.routeCoordinates = Append(@, newPoint),
                                !.distance = IF counted THEN @ + segmentDistance
                                             ELSE @],
         ref |-> IF counted \/ ref = <<>> THEN <<newPoint>> ELSE ref]

locationUpdater_flagJump(prev, ref, newPoint) ==
    LET segmentDistance == IF ref # <<>> THEN calculateDistance(ref[1], newPoint) ELSE 0
        newDistance ==
            IF ref # <<>> /\ segmentDistance > MinSegment /\ segmentDistance < MaxSegment
            THEN prev.distance + segmentDistance
            ELSE prev.distance
    IN  [state |-> [prev EXCEPT !.routeCoordinates = Append(@, newPoint),
                                !.distance = newDistance,
                                !.error = IF ref # <<>> /\ segmentDistance >= MaxSegment
                                          THEN <<"Implausible jump">>
                                          ELSE @],
         ref |-> <<newPoint>>]

locationUpdater_dropNoise(prev, ref, newPoint) ==
    LET segmentDistance == IF ref # <<>> THEN calculateDistance(ref[1], newPoint) ELSE 0
        counted == ref # <<>> /\ segmentDistance > MinSegment /\ segmentDistance < MaxSegment
    IN  [state |-> IF ref # <<>> /\ ~counted
                   THEN prev
                   ELSE [prev EXCEPT !.routeCoordinates = Append(@, newPoint),
                                     !.distance = IF counted THEN @ + segmentDistance
                                                  ELSE @],
         ref |-> <<newPoint>>]

locationUpdater_origin(prev, ref, newPoint) ==
    LET from == IF ref # <<>> THEN ref[1] ELSE [latitude |-> 0, accuracy |-> <<>>]
        segmentDistance == calculateDistance(from, newPoint)
        newDistance ==
            IF segmentDistance > MinSegment /\ segmentDistance < MaxSegment
            THEN prev.distance + segmentDistance
            ELSE prev.distance
    IN  [state |-> [prev EXCEPT !.routeCoordinates = Append(@, newPoint),
                                !.distance = newDistance],
         ref |-> <<newPoint>>]

\* The updater processLocation passes to setState.  It reads and writes the
\* lastLocation ref when React calls it.  Result: the new state and ref.
\* Of LocationTrackingState the fields routeCoordinates, distance and error are
\* kept (error is <<>> for null, <<message>> otherwise); the updater spreads
\* prev, so error passes through.  currentLocation, currentSpeed and
\* currentElevation are written but never read by the hook.
locationUpdater(prev, ref, newPoint) ==
    LET segmentDistance == IF ref # <<>> THEN calculateDistance(ref[1], newPoint) ELSE 0
        newDistance ==
            IF ref # <<>> /\ segmentDistance > MinSegment /\ segmentDistance < MaxSegment
            THEN prev.distance + segmentDistance
            ELSE prev.distance
    IN  [state |-> [prev EXCEPT !.routeCoordinates = Append(@, newPoint),
                                !.distance = newDistance],
         ref |-> <<newPoint>>]

InitialState == [routeCoordinates |-> <<>>, distance |-> 0, error |-> <<>>]

LocationUpdate(p) == [kind |-> "location", point |-> <<p>>]
ResetUpdate == [kind |-> "reset", point |-> <<>>]

\* setState(prev => ({ ...prev, error: message }))
ErrorUpdate(message) == [kind |-> "error", point |-> <<>>, message |-> message]

hookFrame == UNCHANGED <<mounted, routeCoordinates, trackedDistance, lastLocationRef,
                         screenQueue, routeVars, geoVars, trackVars, builderVars,
                         activityVars, lifeVars>>

processLocation(location) ==
    LET newPoint == GPSPointOf(location) IN
    /\ mounted = "hook"
    /\ fed < MaxSamples
    /\ fed' = fed + 1
    /\ call' = [op |-> "processLocation", point |-> <<newPoint>>]
    /\ IF SkipsInaccurate(newPoint)
       THEN /\ UNCHANGED updateQueue
            /\ forwarded' = <<>>
       ELSE /\ updateQueue' = Append(updateQueue, LocationUpdate(newPoint))
            /\ forwarded' = <<newPoint>>
    /\ UNCHANGED <<state, lastLocation, resets>>
    /\ hookFrame

\* backgroundPoints, the buffer of the background task that resetTracking also
\* empties, is not read by processLocation; it is left to the hook instances
\* of TrackingSpec (resetTrackingOf).
resetTracking ==
    /\ mounted = "hook"
    /\ resets < MaxResets
    /\ resets' = resets + 1
    /\ call' = [op |-> "resetTracking", point |-> <<>>]
    /\ lastLocation' = <<>>
    /\ updateQueue' = Append(updateQueue, ResetUpdate)
    /\ UNCHANGED <<state, fed>>
    /\ forwarded' = <<>>
    /\ hookFrame

\* React applies the oldest queued update of the hook's state.
applyUpdate ==
    /\ mounted = "hook"
    /\ updateQueue # <<>>
    /\ LET u == Head(updateQueue) IN
       /\ call' = [op |-> IF u.kind = "location" THEN "applyLocation" ELSE "applyReset",
                   point |-> u.point]
       /\ IF u.kind = "location"
          THEN LET r == locationUpdater(state, lastLocation, u.point[1]) IN
               /\ state' = r.state
               /\ lastLocation' = r.ref
          ELSE /\ state' = InitialState
               /\ UNCHANGED lastLocation
    /\ updateQueue' = Tail(updateQueue)
    /\ UNCHANGED <<fed, resets>>
    /\ forwarded' = <<>>
    /\ hookFrame

(***************************************************************************)
(* (tabs)/track.tsx                                                        *)
(***************************************************************************)
calculateDistanceBetweenPoints(point1, point2) == Abs(point2.latitude - point1.latitude)

\* if (lastLocationRef.current) { ... if (segmentDistance > 2 && segmentDistance < 100)
\*   setTrackedDistance((prev) => prev + segmentDistance) }
\* <<>> when setTrackedDistance is not called, <<segmentDistance>> when it is.
segmentToAdd(ref, newPoint) ==
    IF ref = <<>> THEN <<>>
    ELSE LET segmentDistance == calculateDistanceBetweenPoints(ref[1], newPoint) IN
         IF segmentDistance > MinSegment /\ segmentDistance < MaxSegment
         THEN <<segmentDistance>>
         ELSE <<>>

\* The setter calls of one processLocation call are queued together and React
\* applies them in the same render: setRouteCoordinates(prev => [...prev, newPoint])
\* and, when called, setTrackedDistance(prev => prev + segmentDistance).
SampleUpdate(p, add) == [kind |-> "sample", point |-> <<p>>, add |-> add]
\* setRouteCoordinates([]); setTrackedDistance(0);
ClearUpdate == [kind |-> "clear", point |-> <<>>, add |-> <<>>]

screenFrame == UNCHANGED <<mounted, state, lastLocation, updateQueue, routeVars, geoVars,
                           trackVars, builderVars, activityVars, lifeVars>>

screenProcessLocation(location) ==
    LET newPoint == GPSPointOf(location) IN
    /\ mounted = "screen"
    /\ fed < MaxSamples
    /\ fed' = fed + 1
    /\ call' = [op |-> "processLocation", point |-> <<newPoint>>]
    /\ IF SkipsInaccurate(newPoint)
       THEN /\ UNCHANGED <<screenQueue, lastLocationRef>>
            /\ forwarded' = <<>>
       ELSE /\ screenQueue' = Append(screenQueue,
                                     SampleUpdate(newPoint, segmentToAdd(lastLocationRef, newPoint)))
            /\ lastLocationRef' = <<newPoint>>
            /\ forwarded' = <<newPoint>>
    /\ UNCHANGED <<routeCoordinates, trackedDistance, resets>>
    /\ screenFrame

\* handleStart once startActivity() has returned true: the three resetting
\* statements.  The fixes of startLocationTracking() arrive as later
\* screenProcessLocation steps.
handleStart ==
    /\ mounted = "screen"
    /\ resets < MaxResets
    /\ resets' = resets + 1
    /\ call' = [op |-> "handleStart", point |-> <<>>]
    /\ screenQueue' = Append(screenQueue, ClearUpdate)
    /\ lastLocationRef' = <<>>
    /\ UNCHANGED <<routeCoordinates, trackedDistance, fed>>
    /\ forwarded' = <<>>
    /\ screenFrame

\* The Discard button of handleStop, after discardActivity() and resetActivity():
\* setRouteCoordinates([]); setTrackedDistance(0);
handleStopDiscard ==
    /\ mounted = "screen"
    /\ resets < MaxResets
    /\ resets' = resets + 1
    /\ call' = [op |-> "handleStopDiscard", point |-> <<>>]
    /\ screenQueue' = Append(screenQueue, ClearUpdate)
    /\ UNCHANGED <<routeCoordinates, trackedDistance, lastLocationRef, fed>>
    /\ forwarded' = <<>>
    /\ screenFrame

\* React applies the oldest queued updates of the screen's state.
screenApplyUpdate ==
    /\ mounted = "screen"
    /\ screenQueue # <<>>
    /\ LET u == Head(screenQueue) IN
       /\ call' = [op |-> IF u.kind = "sample" THEN "applyLocation" ELSE "applyReset",
                   point |-> u.point]
       /\ IF u.kind = "sample"
          THEN /\ routeCoordinates' = Append(routeCoordinates, u.point[1])
               /\ trackedDistance' = IF u.add = <<>> THEN trackedDistance
                                     ELSE trackedDistance + u.add[1]
          ELSE /\ routeCoordinates' = <<>>
               /\ trackedDistance' = 0
    /\ screenQueue' = Tail(screenQueue)
    /\ UNCHANGED <<lastLocationRef, fed, resets>>
    /\ forwarded' = <<>>
    /\ screenFrame

(***************************************************************************)
(* Route geofencing: checkWaypointProgress and haversineMeters.            *)
(***************************************************************************)
\* Geofence centres and radii of the waypoints, and latitudes of the fixes of
\* a track, in metres (of arc).  8 lies in the geofences of 0 and of 15 with
\* radius 10; 10 and 25 lie exactly on a radius.
WaypointLatitudes == {0, 15, 40}
Radii == {5, 10}
TrackLatitudes == {0, 8, 10, 11, 25, 40}

RouteWaypoints == [latitude : WaypointLatitudes, radius_meters : Radii]
TrackPoints == [latitude : TrackLatitudes]

SeqsUpTo(S, n) == UNION {[1..k -> S] : k \in 0..n}

haversineMeters(a, b) == Abs(b.latitude - a.latitude)

EndOfLoop(nextRequired, reachedWaypoints) ==
    [nextRequired |-> nextRequired, reachedWaypoints |-> reachedWaypoints]

\* Variants of the loop: a fix that cleared a waypoint is tested against the
\* next waypoint too; the loop ends at the first fix outside the required
\* geofence.
RECURSIVE trackLoop_retest(_, _, _, _, _)
trackLoop_retest(wps, track, i, nextRequired, reachedWaypoints) ==
    IF i > Len(track) \/ nextRequired >= Len(wps)
    THEN EndOfLoop(nextRequired, reachedWaypoints)
    ELSE LET wp == wps[nextRequired + 1]
             dist == haversineMeters(track[i], [latitude |-> wp.latitude])
         IN  IF dist <= wp.radius_meters
             THEN trackLoop_retest(wps, track, i, nextRequired + 1,
                                   [reachedWaypoints EXCEPT ![nextRequired + 1] = TRUE])
             ELSE trackLoop_retest(wps, track, i + 1, nextRequired, reachedWaypoints)

RECURSIVE trackLoop_stopAtMiss(_, _, _, _, _)
trackLoop_stopAtMiss(wps, track, i, nextRequired, reachedWaypoints) ==
    IF i > Len(track) \/ nextRequired >= Len(wps)
    THEN EndOfLoop(nextRequired, reachedWaypoints)
    ELSE LET wp == wps[nextRequired + 1]
             dist == haversineMeters(track[i], [latitude |-> wp.latitude])
         IN  IF dist <= wp.radius_meters
             THEN trackLoop_stopAtMiss(wps, track, i + 1, nextRequired + 1,
                                       [reachedWaypoints EXCEPT ![nextRequired + 1] = TRUE])
             ELSE EndOfLoop(nextRequired, reachedWaypoints)

\* Further variants of the loop: the pointer steps back when a fix outside the
\* required geofence lies in the geofence cleared last; a fix on the radius is
\* outside.
RECURSIVE trackLoop_backtrack(_, _, _, _, _)
trackLoop_backtrack(wps, track, i, nextRequired, reachedWaypoints) ==
    IF i > Len(track) \/ nextRequired >= Len(wps)
    THEN EndOfLoop(nextRequired, reachedWaypoints)
    ELSE LET wp == wps[nextRequired + 1]
             dist == haversineMeters(track[i], [latitude |-> wp.latitude])
         IN  IF dist <= wp.radius_meters
             THEN trackLoop_backtrack(wps, track, i + 1, nextRequired + 1,
                                      [reachedWaypoints EXCEPT ![nextRequired + 1] = TRUE])
             ELSE IF /\ nextRequired > 0
                     /\ haversineMeters(track[i], [latitude |-> wps[nextRequired].latitude])
                            <= wps[nextRequired].radius_meters
             THEN trackLoop_backtrack(wps, track, i + 1, nextRequired - 1,
                                      [reachedWaypoints EXCEPT ![nextRequired] = FALSE])
             ELSE trackLoop_backtrack(wps, track, i + 1, nextRequired, reachedWaypoints)

RECURSIVE trackLoop_strict(_, _, _, _, _)
trackLoop_strict(wps, track, i, nextRequired, reachedWaypoints) ==
    IF i > Len(track) \/ nextRequired >= Len(wps)
    THEN EndOfLoop(nextRequired, reachedWaypoints)
    ELSE LET wp == wps[nextRequired + 1]
             dist == haversineMeters(track[i], [latitude |-> wp.latitude])
         IN  IF dist < wp.radius_meters
             THEN trackLoop_strict(wps, track, i + 1, nextRequired + 1,
                                   [reachedWaypoints EXCEPT ![nextRequired + 1] = TRUE])
             ELSE trackLoop_strict(wps, track, i + 1, nextRequired, reachedWaypoints)

\* for (const point of gpsTrack) { ... }, from the i-th fix on (i from 1).
\* nextRequired counts from 0 as in the source; sequences count from 1.
RECURSIVE trackLoop(_, _, _, _, _)
trackLoop(wps, track, i, nextRequired, reachedWaypoints) ==
    IF i > Len(track)
    THEN EndOfLoop(nextRequired, reachedWaypoints)
    ELSE IF nextRequired >= Len(wps)
    THEN EndOfLoop(nextRequired, reachedWaypoints)   \* break
    ELSE LET point == track[i]
             wp == wps[nextRequired + 1]
             dist == haversineMeters(point, [latitude |-> wp.latitude])
         IN  IF dist <= wp.radius_meters
             THEN trackLoop(wps, track, i + 1, nextRequired + 1,
                            [reachedWaypoints EXCEPT ![nextRequired + 1] = TRUE])
             ELSE trackLoop(wps, track, i + 1, nextRequired, reachedWaypoints)

\* Variants of the result: all cleared one waypoint early; all cleared only for
\* a route that has waypoints.
checkWaypointProgress_early(wps, track) ==
    LET end == trackLoop(wps, track, 1, 0, [k \in 1..Len(wps) |-> FALSE])
    IN  [reachedIndex |-> end.nextRequired - 1,
         allCleared |-> end.nextRequired >= Len(wps) - 1,
         reachedWaypoints |-> end.reachedWaypoints]

checkWaypointProgress_nonEmpty(wps, track) ==
    LET end == trackLoop(wps, track, 1, 0, [k \in 1..Len(wps) |-> FALSE])
    IN  [reachedIndex |-> end.nextRequired - 1,
         allCleared |-> Len(wps) > 0 /\ end.nextRequired >= Len(wps),
         reachedWaypoints |-> end.reachedWaypoints]

\* Variant of the result: the pointer returned as the index.
checkWaypointProgress_pointer(wps, track) ==
    LET end == trackLoop(wps, track, 1, 0, [k \in 1..Len(wps) |-> FALSE])
    IN  [reachedIndex |-> end.nextRequired,
         allCleared |-> end.nextRequired >= Len(wps),
         reachedWaypoints |-> end.reachedWaypoints]

checkWaypointProgress(wps, track) ==
    LET end == trackLoop(wps, track, 1, 0, [k \in 1..Len(wps) |-> FALSE])
    IN  [reachedIndex |-> end.nextRequired - 1,
         allCleared |-> end.nextRequired >= Len(wps),
         reachedWaypoints |-> end.reachedWaypoints]

\* A fix is recorded and the progress along the route is computed from the
\* whole track.
recordFixAndCheck(point) ==
    /\ Len(gpsTrack) < MaxTrack
    /\ gpsTrack' = Append(gpsTrack, point)
    /\ progress' = checkWaypointProgress(waypoints, gpsTrack')
    /\ UNCHANGED <<waypoints, accVars, geoVars, trackVars, builderVars, activityVars, lifeVars>>

(***************************************************************************)
(* The Haversine formula in two dimensions, on the points whose latitude   *)
(* and longitude are multiples of 90 degrees.  There the formula is exact: *)
(* sin^2 of a multiple of 45 degrees is 0, 1/2 or 1, the cosine of a       *)
(* latitude is 0 or 1, so h is 0, 1/2 or 1 and 2 * atan2(sqrt h, sqrt(1-h))*)
(* is 0, pi/2 or pi.  Quantities are kept as twice their value (halves).   *)
(***************************************************************************)
GridLatitudes == {-90, 0, 90}
GridLongitudes == {-180, -90, 0, 90, 180}
GridPoints == [latitude : GridLatitudes, longitude : GridLongitudes]

\* 2 * sin(toRad(deg) / 2)^2 for deg a multiple of 90.
TwiceSinSqHalf(deg) ==
    LET m == deg % 360 IN
    CASE m = 0 -> 0
      [] m = 90 -> 1
      [] m = 180 -> 2
      [] m = 270 -> 1

\* Math.cos(toRad(deg)) for a latitude of -90, 0 or 90.
CosLatitude(deg) == IF deg = 0 THEN 1 ELSE 0

\* R * 2 * Math.atan2(Math.sqrt(h), Math.sqrt(1 - h)) for h = twiceH / 2: the
\* angle is twiceH quarter turns.  Metres with pi / 2 taken as 1.571 (32-bit
\* integers: the radius is multiplied in kilometres).
ArcMeters(twiceH) ==
    LET quarterTurns == CASE twiceH = 0 -> 0 [] twiceH = 1 -> 1 [] twiceH = 2 -> 2
    IN  (EarthRadius \div 1000) * 1571 * quarterTurns

\* Variant: the longitude difference taken from the first point's latitude.
haversineMetersGrid_latForLon(a, b) ==
    LET dLat == b.latitude - a.latitude
        dLon == b.longitude - a.latitude
        twiceH == TwiceSinSqHalf(dLat)
                  + CosLatitude(a.latitude) * CosLatitude(b.latitude) * TwiceSinSqHalf(dLon)
    IN  ArcMeters(twiceH)

\* haversineMeters of the route geofencing.
haversineMetersGrid(a, b) ==
    LET dLat == b.latitude - a.latitude
        dLon == b.longitude - a.longitude
        twiceH == TwiceSinSqHalf(dLat)
                  + CosLatitude(a.latitude) * CosLatitude(b.latitude) * TwiceSinSqHalf(dLon)
    IN  ArcMeters(twiceH)

\* calculateDistance of the hook (calculateDistanceBetweenPoints of the screen
\* has the same statements).
calculateDistanceGrid(point1, point2) ==
    LET phi1 == point1.latitude
        phi2 == point2.latitude
        deltaPhi == point2.latitude - point1.latitude
        deltaLambda == point2.longitude - point1.longitude
        twiceA == TwiceSinSqHalf(deltaPhi)
                  + CosLatitude(phi1) * CosLatitude(phi2) * TwiceSinSqHalf(deltaLambda)
    IN  ArcMeters(twiceA)

Measurement(a, b) ==
    [a |-> a, b |-> b,
     haversineMeters |-> haversineMetersGrid(a, b),
     calculateDistance |-> calculateDistanceGrid(a, b)]

NoMeasurement ==
    Measurement([latitude |-> 0, longitude |-> 0], [latitude |-> 0, longitude |-> 0])

\* The distance of two points is computed by both functions.
measureDistance(a, b) ==
    /\ measured' = Measurement(a, b)
    /\ UNCHANGED <<accVars, routeVars, trackVars, builderVars, activityVars, lifeVars>>

(***************************************************************************)
(* useLocationTracking with its background task: several instances of the  *)
(* hook in one JavaScript runtime.                                         *)
(*                                                                         *)
(* backgroundPoints is a variable of the module, so there is one buffer    *)
(* and one background task for all instances of the hook.  A fix carries   *)
(* the timestamp the location provider gave it; the provider's timestamps  *)
(* never go back (clock).                                                  *)
(*                                                                         *)
(* An updater passed to setState runs when React renders, or at once when  *)
(* React evaluates it eagerly (possible only when the instance has no      *)
(* queued update).  For the merging updater the two differ, because it     *)
(* reads backgroundPoints and the handler empties the buffer right after   *)
(* setState: an eager merge carries the points read at dispatch, a merge   *)
(* run at render reads the buffer of that moment.                          *)
(***************************************************************************)
Sessions == {1, 2}

TrackedLatitudes == {0, 5}
TrackedAccuracies == {<<>>, <<AccuracyLimit + 1>>}

\* Location.LocationObject values of the provider at the current clock.
TrackedLocations ==
    [latitude : TrackedLatitudes, accuracy : TrackedAccuracies, timestamp : {clock}]

\* const newPoint: GPSPoint = { latitude, longitude, timestamp, ..., accuracy, ... }
\* with timestamp: new Date(location.timestamp).toISOString(); ISO strings of
\* UTC instants order as the instants do, so the instant stands for the string.
TimedPointOf(location) ==
    [latitude |-> location.latitude, accuracy |-> location.accuracy,
     timestamp |-> location.timestamp]

NewInstance ==
    [state |-> InitialState, lastLocation |-> <<>>, updateQueue |-> <<>>,
     isTracking |-> FALSE]

\* setState(prev => ({...prev, routeCoordinates: [...prev.routeCoordinates, ...backgroundPoints]}))
\* eager is <<points>> when the updater ran at dispatch, <<>> when it is to run
\* at render.  pushed records the buffer as it was at dispatch; the program
\* keeps no such record and no action reads it.
MergeUpdate(eager, pushed) ==
    [kind |-> "merge", point |-> <<>>, eager |-> eager, pushed |-> pushed]

mergeUpdater(prev, points) ==
    [prev EXCEPT !.routeCoordinates = @ \o points]

\* Whether React may evaluate an updater of the instance at dispatch.
EagerChoices(inst) == IF inst.updateQueue = <<>> THEN {TRUE, FALSE} ELSE {FALSE}

\* processLocation(location) of one instance.
fedTo(inst, location) ==
    LET newPoint == TimedPointOf(location) IN
    IF SkipsInaccurate(newPoint)
    THEN inst
    ELSE [inst EXCEPT !.updateQueue = Append(@, LocationUpdate(newPoint))]

\* if (backgroundPoints.length > 0) { setState(prev => ...); backgroundPoints = []; }
mergedInto(inst, eager) ==
    IF backgroundPoints = <<>>
    THEN inst
    ELSE [inst EXCEPT !.updateQueue =
              Append(@, MergeUpdate(IF eager THEN <<backgroundPoints>> ELSE <<>>,
                                    backgroundPoints))]

\* return [...state.routeCoordinates, ...backgroundPoints];
getAllPoints(inst, buffer) == inst.state.routeCoordinates \o buffer

trackFrame == UNCHANGED <<accVars, routeVars, geoVars, builderVars, activityVars, lifeVars>>

\* startTracking() with permission granted: the initial fix goes to
\* processLocation, the foreground subscription and the background task start.
startTracking(s, location) ==
    /\ ~instances[s].isTracking
    /\ commands < MaxCommands
    /\ deliveries < MaxDeliveries
    /\ commands' = commands + 1
    /\ deliveries' = deliveries + 1
    /\ instances' = [instances EXCEPT ![s] = [fedTo(@, location) EXCEPT !.isTracking = TRUE]]
    /\ taskRegistered' = TRUE
    /\ hookCall' = [session |-> s, op |-> "startTracking"]
    /\ UNCHANGED <<backgroundPoints, clock>>
    /\ trackFrame

\* The foreground subscription of a tracking instance delivers a fix to
\* processLocation.
watchPosition(s, location) ==
    /\ instances[s].isTracking
    /\ deliveries < MaxDeliveries
    /\ deliveries' = deliveries + 1
    /\ instances' = [instances EXCEPT ![s] = fedTo(@, location)]
    /\ hookCall' = [session |-> s, op |-> "processLocation"]
    /\ UNCHANGED <<backgroundPoints, taskRegistered, clock, commands>>
    /\ trackFrame

\* The background task receives a fix: backgroundPoints.push(point).  It has
\* no accuracy check and belongs to no instance (session 0).
backgroundTask(location) ==
    /\ taskRegistered
    /\ deliveries < MaxDeliveries
    /\ deliveries' = deliveries + 1
    /\ backgroundPoints' = Append(backgroundPoints, TimedPointOf(location))
    /\ hookCall' = [session |-> 0, op |-> "backgroundTask"]
    /\ UNCHANGED <<instances, taskRegistered, clock, commands>>
    /\ trackFrame

\* stopTracking(): the subscription is removed, the background task is
\* stopped, and the buffer is merged and emptied.
stopTracking(s) ==
    /\ commands < MaxCommands
    /\ commands' = commands + 1
    /\ \E eager \in EagerChoices(instances[s]) :
           instances' = [instances EXCEPT
                            ![s] = [mergedInto(@, eager) EXCEPT !.isTracking = FALSE]]
    /\ backgroundPoints' = <<>>
    /\ taskRegistered' = FALSE
    /\ hookCall' = [session |-> s, op |-> "stopTracking"]
    /\ UNCHANGED <<clock, deliveries>>
    /\ trackFrame

\* The AppState listener of a tracking instance when the app returns to the
\* foreground: the buffer is merged and emptied.
appStateActive(s) ==
    /\ instances[s].isTracking
    /\ commands < MaxCommands
    /\ commands' = commands + 1
    /\ \E eager \in EagerChoices(instances[s]) :
           instances' = [instances EXCEPT ![s] = mergedInto(@, eager)]
    /\ backgroundPoints' = <<>>
    /\ hookCall' = [session |-> s, op |-> "appStateActive"]
    /\ UNCHANGED <<taskRegistered, clock, deliveries>>
    /\ trackFrame

\* resetTracking() of one instance.
resetTrackingOf(s) ==
    /\ commands < MaxCommands
    /\ commands' = commands + 1
    /\ instances' = [instances EXCEPT ![s] =
                        [@ EXCEPT !.lastLocation = <<>>,
                                  !.updateQueue = Append(@, ResetUpdate)]]
    /\ backgroundPoints' = <<>>
    /\ hookCall' = [session |-> s, op |-> "resetTracking"]
    /\ UNCHANGED <<taskRegistered, clock, deliveries>>
    /\ trackFrame

\* React applies the oldest queued update of one instance.
renderHook(s) ==
    /\ instances[s].updateQueue # <<>>
    /\ LET inst == instances[s]
           u == Head(inst.updateQueue)
           applied ==
               CASE u.kind = "location" ->
                        LET r == locationUpdater(inst.state, inst.lastLocation, u.point[1])
                        IN  [inst EXCEPT !.state = r.state, !.lastLocation = r.ref]
                 [] u.kind = "reset" -> [inst EXCEPT !.state = InitialState]
                 [] u.kind = "error" -> [inst EXCEPT !.state.error = <<u.message>>]
                 [] u.kind = "merge" ->
                        [inst EXCEPT !.state =
                            mergeUpdater(@, IF u.eager # <<>> THEN u.eager[1]
                                            ELSE backgroundPoints)]
       IN  instances' = [instances EXCEPT ![s] = [applied EXCEPT !.updateQueue = Tail(@)]]
    /\ hookCall' = [session |-> s, op |-> "render"]
    /\ UNCHANGED <<backgroundPoints, taskRegistered, clock, deliveries, commands>>
    /\ trackFrame

\* Time passes at the location provider.
tick ==
    /\ clock < MaxClock
    /\ clock' = clock + 1
    /\ hookCall' = [session |-> 0, op |-> "tick"]
    /\ UNCHANGED <<instances, backgroundPoints, taskRegistered, deliveries, commands>>
    /\ trackFrame

\* No hook instance has done anything yet.
NotTracking ==
    /\ instances = [s \in Sessions |-> NewInstance]
    /\ backgroundPoints = <<>>
    /\ taskRegistered = FALSE
    /\ clock = 1
    /\ deliveries = 0
    /\ commands = 0
    /\ hookCall = [session |-> 0, op |-> "mount"]

(***************************************************************************)
(* Route builder (app/route-builder.tsx) and the pending-waypoints store   *)
(* (app/route-store.ts).                                                   *)
(*                                                                         *)
(* A waypoint keeps order, waypoint_type, latitude, name and               *)
(* radius_meters; longitude is set and moved together with latitude and    *)
(* is left out.  The handlers read the waypoints of the last render; a     *)
(* press or drag is a discrete event, which React renders before the next  *)
(* one, so every handler sees the current list.                            *)
(***************************************************************************)
BuilderLatitudes == {0, 15}
WaypointNames == {"", "Gate"}

\* GeocodedPlace: the name is kept as its comma-separated parts.
Places == [name : {<<"Park", "Kathmandu">>}, latitude : {15}]

\* place.name.split(',')[0]
FirstPart(parts) == parts[1]

NewWaypoint(order, latitude, name) ==
    [order |-> order, waypoint_type |-> "checkpoint", latitude |-> latitude,
     name |-> name, radius_meters |-> DefaultRadius]

\* Values of the existingWaypoints parameter: absent, not JSON, JSON that is
\* no array, and arrays: empty, a list the builder produced, and a list as a
\* backend that numbers from 1 stores it.
BuilderList ==
    <<[order |-> 0, waypoint_type |-> "start", latitude |-> 0, name |-> "",
       radius_meters |-> DefaultRadius],
      [order |-> 1, waypoint_type |-> "end", latitude |-> 15, name |-> "",
       radius_meters |-> DefaultRadius]>>

StoredList ==
    <<[order |-> 1, waypoint_type |-> "start", latitude |-> 0, name |-> "",
       radius_meters |-> DefaultRadius],
      [order |-> 2, waypoint_type |-> "end", latitude |-> 15, name |-> "",
       radius_meters |-> DefaultRadius]>>

ExistingParams ==
    {[kind |-> k, value |-> <<>>] : k \in {"absent", "malformed", "object", "array"}}
        \cup {[kind |-> "array", value |-> v] : v \in {BuilderList, StoredList}}

\* The effect on existingWaypoints: JSON.parse, then setWaypoints(parsed) when
\* parsed is a non-empty array; otherwise the list stays [].
loadedWaypoints(param) ==
    IF param.kind = "array" /\ Len(param.value) > 0 THEN param.value ELSE <<>>

\* index and total as in the source: index counts from 0.
getWaypointType(index, total) ==
    IF index = 0 THEN "start"
    ELSE IF index = total - 1 /\ total > 1 THEN "end"
    ELSE "checkpoint"

recomputeTypes(wps) ==
    [i \in 1..Len(wps) |->
        [wps[i] EXCEPT !.order = i - 1,
                       !.waypoint_type = getWaypointType(i - 1, Len(wps))]]

\* updated.splice(index, 1), index from 0.
splice1(wps, index) ==
    [i \in 1..(Len(wps) - 1) |-> IF i <= index THEN wps[i] ELSE wps[i + 1]]

builderFrame == UNCHANGED <<accVars, routeVars, geoVars, trackVars, activityVars, lifeVars>>

\* The screen is pushed with an existingWaypoints parameter; its effect runs.
openBuilder(param) ==
    /\ ~builder.open
    /\ edits < MaxEdits
    /\ edits' = edits + 1
    /\ builder' = [open |-> TRUE, waypoints |-> loadedWaypoints(param), addMode |-> "null"]
    /\ builderCall' = "openBuilder"
    /\ UNCHANGED <<pendingWaypoints, consumed>>
    /\ builderFrame

\* The two mode buttons: setAddMode(addMode === mode ? null : mode).
toggleAddMode(mode) ==
    /\ builder.open
    /\ edits < MaxEdits
    /\ edits' = edits + 1
    /\ builder' = [builder EXCEPT !.addMode = IF @ = mode THEN "null" ELSE mode]
    /\ builderCall' = "toggleAddMode"
    /\ UNCHANGED <<pendingWaypoints, consumed>>
    /\ builderFrame

handleMapPress(latitude) ==
    /\ builder.open
    /\ builder.addMode = "tap"
    /\ Len(builder.waypoints) < MaxRoute
    /\ edits < MaxEdits
    /\ edits' = edits + 1
    /\ LET newWp == NewWaypoint(Len(builder.waypoints), latitude, "")
       IN  builder' = [builder EXCEPT
                          !.waypoints = recomputeTypes(Append(@, newWp))]
    /\ builderCall' = "handleMapPress"
    /\ UNCHANGED <<pendingWaypoints, consumed>>
    /\ builderFrame

\* A listed search result is pressed (the results stay listed whatever the
\* mode is).
selectSearchResult(place) ==
    /\ builder.open
    /\ Len(builder.waypoints) < MaxRoute
    /\ edits < MaxEdits
    /\ edits' = edits + 1
    /\ LET newWp == NewWaypoint(Len(builder.waypoints), place.latitude,
                                FirstPart(place.name))
       IN  builder' = [builder EXCEPT
                          !.waypoints = recomputeTypes(Append(@, newWp)),
                          !.addMode = "null"]
    /\ builderCall' = "selectSearchResult"
    /\ UNCHANGED <<pendingWaypoints, consumed>>
    /\ builderFrame

removeWaypoint(index) ==
    /\ builder.open
    /\ index < Len(builder.waypoints)
    /\ edits < MaxEdits
    /\ edits' = edits + 1
    /\ builder' = [builder EXCEPT !.waypoints = recomputeTypes(splice1(@, index))]
    /\ builderCall' = "removeWaypoint"
    /\ UNCHANGED <<pendingWaypoints, consumed>>
    /\ builderFrame

handleMarkerDragEnd(index, latitude) ==
    /\ builder.open
    /\ index < Len(builder.waypoints)
    /\ edits < MaxEdits
    /\ edits' = edits + 1
    /\ builder' = [builder EXCEPT !.waypoints[index + 1].latitude = latitude]
    /\ builderCall' = "handleMarkerDragEnd"
    /\ UNCHANGED <<pendingWaypoints, consumed>>
    /\ builderFrame

editWaypointName(index, newName) ==
    /\ builder.open
    /\ index < Len(builder.waypoints)
    /\ edits < MaxEdits
    /\ edits' = edits + 1
    /\ builder' = [builder EXCEPT !.waypoints[index + 1].name = newName]
    /\ builderCall' = "editWaypointName"
    /\ UNCHANGED <<pendingWaypoints, consumed>>
    /\ builderFrame

\* route-store: _pendingWaypoints = waypoints
setPendingWaypoints(slot, wps) == <<wps>>

\* route-store: const data = _pendingWaypoints; _pendingWaypoints = null; return data;
\* The result is the returned value and the slot afterwards.
consumePendingWaypoints_peek(slot) == [data |-> slot, slot |-> slot]

consumePendingWaypoints(slot) == [data |-> slot, slot |-> <<>>]

\* Done: with fewer than two waypoints an alert and nothing else; otherwise
\* setPendingWaypoints(waypoints) and router.back(), which closes the screen.
handleSave ==
    /\ builder.open
    /\ edits < MaxEdits
    /\ edits' = edits + 1
    /\ builderCall' = "handleSave"
    /\ IF Len(builder.waypoints) < 2
       THEN UNCHANGED <<builder, pendingWaypoints>>
       ELSE /\ pendingWaypoints' = setPendingWaypoints(pendingWaypoints, builder.waypoints)
            /\ builder' = [builder EXCEPT !.open = FALSE]
    /\ UNCHANGED consumed
    /\ builderFrame

\* The back arrow: router.back() without a hand-off.
goBack ==
    /\ builder.open
    /\ edits < MaxEdits
    /\ edits' = edits + 1
    /\ builder' = [builder EXCEPT !.open = FALSE]
    /\ builderCall' = "goBack"
    /\ UNCHANGED <<pendingWaypoints, consumed>>
    /\ builderFrame

\* A caller of the store consumes the pending waypoints.
consume ==
    /\ edits < MaxEdits
    /\ edits' = edits + 1
    /\ LET r == consumePendingWaypoints(pendingWaypoints)
       IN  /\ consumed' = r.data
           /\ pendingWaypoints' = r.slot
    /\ builderCall' = "consumePendingWaypoints"
    /\ UNCHANGED builder
    /\ builderFrame

\* The builder has not been opened and the store is empty.
BuilderClosed ==
    /\ builder = [open |-> FALSE, waypoints |-> <<>>, addMode |-> "null"]
    /\ pendingWaypoints = <<>>
    /\ consumed = <<>>
    /\ edits = 0
    /\ builderCall = "none"

(***************************************************************************)
(* Activity context (ActivityProvider, src/unnamed/part_007).              *)
(*                                                                         *)
(* An operation of the context that awaits the backend is in flight from   *)
(* its call to the response; the backend answers the requests in any order *)
(* and each request succeeds or fails.  An operation keeps the activityId  *)
(* of the render it was called in.  A setState updater is applied when its *)
(* step is taken.  A GPS point is the number of its addGPSPoint call.  The *)
(* body of an upload request is the buffer as it is when the request is    *)
(* posted.                                                                 *)
(***************************************************************************)
InitialActivity ==
    [activityId |-> <<>>, status |-> "idle", elapsedTime |-> 0, activeTime |-> 0]

Operation(op, pc, activityId, points) ==
    [op |-> op, pc |-> pc, activityId |-> activityId, points |-> points]

\* The sequence without its i-th element.
Without(seq, i) == SubSeq(seq, 1, i - 1) \o SubSeq(seq, i + 1, Len(seq))

\* Replaces the i-th in-flight operation by its next awaiting step.
Continued(i, next) == [inflight EXCEPT ![i] = next]

ActCall(op, ok, points) == [op |-> op, ok |-> ok, points |-> points]

\* startTimer: if (timerRef.current) return; timerRef.current = setInterval(...)
timerStarted == [timerRef |-> TRUE, intervals |-> IF timerRef THEN intervals ELSE intervals + 1]

\* stopTimer: if (timerRef.current) { clearInterval(timerRef.current); timerRef.current = null; }
timerStopped == [timerRef |-> FALSE, intervals |-> IF timerRef THEN intervals - 1 ELSE intervals]

activityFrame == UNCHANGED <<accVars, routeVars, geoVars, trackVars, builderVars, lifeVars>>

CanCall == requests < MaxRequests /\ Len(inflight) < MaxInFlight

\* startActivity(): awaits POST /activities/.  Its caller, handleStart of the
\* tracking screen, is the handler of the Start button, which is shown only
\* while status is 'idle'.
startActivity ==
    /\ CanCall
    /\ activity.status = "idle"
    /\ requests' = requests + 1
    /\ inflight' = Append(inflight, Operation("start", "post", activity.activityId, <<>>))
    /\ actCall' = ActCall("startActivity", TRUE, <<>>)
    /\ UNCHANGED <<activity, timerRef, intervals, pendingPoints, added, created>>
    /\ activityFrame

startResponds(i, ok) ==
    /\ i \in 1..Len(inflight)
    /\ inflight[i].op = "start"
    /\ inflight' = Without(inflight, i)
    /\ actCall' = ActCall("startResponds", ok, <<>>)
    /\ IF ok
       THEN /\ created < MaxActivities
            /\ created' = created + 1
            /\ activity' = [activity EXCEPT !.activityId = <<created + 1>>,
                                            !.status = "recording",
                                            !.elapsedTime = 0,
                                            !.activeTime = 0]
            /\ timerRef' = timerStarted.timerRef
            /\ intervals' = timerStarted.intervals
       ELSE UNCHANGED <<created, activity, timerRef, intervals>>
    /\ UNCHANGED <<pendingPoints, added, requests>>
    /\ activityFrame

\* pauseActivity(): returns at once unless there is an activity and it is
\* recording; awaits POST pause.
pauseActivity ==
    /\ CanCall
    /\ requests' = requests + 1
    /\ actCall' = ActCall("pauseActivity", TRUE, <<>>)
    /\ IF activity.activityId = <<>> \/ activity.status # "recording"
       THEN UNCHANGED inflight
       ELSE inflight' = Append(inflight, Operation("pause", "post", activity.activityId, <<>>))
    /\ UNCHANGED <<activity, timerRef, intervals, pendingPoints, added, created>>
    /\ activityFrame

\* After the pause response: stopTimer(); await uploadPendingPoints(id, true);
\* setState(status: 'paused').  With an empty buffer nothing is posted.
pauseResponds(i, ok) ==
    /\ i \in 1..Len(inflight)
    /\ inflight[i].op = "pause" /\ inflight[i].pc = "post"
    /\ actCall' = ActCall("pauseResponds", ok, <<>>)
    /\ IF ok
       THEN /\ timerRef' = timerStopped.timerRef
            /\ intervals' = timerStopped.intervals
            /\ IF pendingPoints # <<>>
               THEN /\ inflight' = Continued(i, Operation("pause", "upload",
                                                inflight[i].activityId, pendingPoints))
                    /\ UNCHANGED activity
               ELSE /\ inflight' = Without(inflight, i)
                    /\ activity' = [activity EXCEPT !.status = "paused"]
       ELSE /\ inflight' = Without(inflight, i)
            /\ UNCHANGED <<activity, timerRef, intervals>>
    /\ UNCHANGED <<pendingPoints, added, created, requests>>
    /\ activityFrame

\* The upload of pauseActivity is answered: pendingPointsRef.current = [] on
\* success, the error is caught otherwise; then setState(status: 'paused').
pauseUploadResponds(i, ok) ==
    /\ i \in 1..Len(inflight)
    /\ inflight[i].op = "pause" /\ inflight[i].pc = "upload"
    /\ actCall' = ActCall("uploadResponds", ok, inflight[i].points)
    /\ pendingPoints' = IF ok THEN <<>> ELSE pendingPoints
    /\ activity' = [activity EXCEPT !.status = "paused"]
    /\ inflight' = Without(inflight, i)
    /\ UNCHANGED <<timerRef, intervals, added, created, requests>>
    /\ activityFrame

\* resumeActivity(): returns at once unless the activity is paused.
resumeActivity ==
    /\ CanCall
    /\ requests' = requests + 1
    /\ actCall' = ActCall("resumeActivity", TRUE, <<>>)
    /\ IF activity.activityId = <<>> \/ activity.status # "paused"
       THEN UNCHANGED inflight
       ELSE inflight' = Append(inflight, Operation("resume", "post", activity.activityId, <<>>))
    /\ UNCHANGED <<activity, timerRef, intervals, pendingPoints, added, created>>
    /\ activityFrame

resumeResponds(i, ok) ==
    /\ i \in 1..Len(inflight)
    /\ inflight[i].op = "resume"
    /\ inflight' = Without(inflight, i)
    /\ actCall' = ActCall("resumeResponds", ok, <<>>)
    /\ IF ok
       THEN /\ timerRef' = timerStarted.timerRef
            /\ intervals' = timerStarted.intervals
            /\ activity' = [activity EXCEPT !.status = "recording"]
       ELSE UNCHANGED <<activity, timerRef, intervals>>
    /\ UNCHANGED <<pendingPoints, added, created, requests>>
    /\ activityFrame

\* stopActivity(): returns null without an activity; stopTimer(); await
\* uploadPendingPoints(id, true); then awaits POST complete.
stopActivity ==
    /\ CanCall
    /\ requests' = requests + 1
    /\ actCall' = ActCall("stopActivity", TRUE, <<>>)
    /\ IF activity.activityId = <<>>
       THEN UNCHANGED <<inflight, timerRef, intervals>>
       ELSE /\ timerRef' = timerStopped.timerRef
            /\ intervals' = timerStopped.intervals
            /\ inflight' = Append(inflight,
                   IF pendingPoints # <<>>
                   THEN Operation("stop", "upload", activity.activityId, pendingPoints)
                   ELSE Operation("stop", "post", activity.activityId, <<>>))
    /\ UNCHANGED <<activity, pendingPoints, added, created>>
    /\ activityFrame

stopUploadResponds(i, ok) ==
    /\ i \in 1..Len(inflight)
    /\ inflight[i].op = "stop" /\ inflight[i].pc = "upload"
    /\ actCall' = ActCall("uploadResponds", ok, inflight[i].points)
    /\ pendingPoints' = IF ok THEN <<>> ELSE pendingPoints
    /\ inflight' = Continued(i, Operation("stop", "post", inflight[i].activityId, <<>>))
    /\ UNCHANGED <<activity, timerRef, intervals, added, created, requests>>
    /\ activityFrame

stopResponds(i, ok) ==
    /\ i \in 1..Len(inflight)
    /\ inflight[i].op = "stop" /\ inflight[i].pc = "post"
    /\ inflight' = Without(inflight, i)
    /\ actCall' = ActCall("stopResponds", ok, <<>>)
    /\ activity' = IF ok THEN [activity EXCEPT !.status = "completed"] ELSE activity
    /\ UNCHANGED <<timerRef, intervals, pendingPoints, added, created, requests>>
    /\ activityFrame

\* discardActivity(): returns without an activity; stopTimer(); awaits POST
\* discard.
discardActivity ==
    /\ CanCall
    /\ requests' = requests + 1
    /\ actCall' = ActCall("discardActivity", TRUE, <<>>)
    /\ IF activity.activityId = <<>>
       THEN UNCHANGED <<inflight, timerRef, intervals>>
       ELSE /\ timerRef' = timerStopped.timerRef
            /\ intervals' = timerStopped.intervals
            /\ inflight' = Append(inflight,
                                  Operation("discard", "post", activity.activityId, <<>>))
    /\ UNCHANGED <<activity, pendingPoints, added, created>>
    /\ activityFrame

discardResponds(i, ok) ==
    /\ i \in 1..Len(inflight)
    /\ inflight[i].op = "discard"
    /\ inflight' = Without(inflight, i)
    /\ actCall' = ActCall("discardResponds", ok, <<>>)
    /\ IF ok
       THEN /\ activity' = InitialActivity
            /\ pendingPoints' = <<>>
       ELSE UNCHANGED <<activity, pendingPoints>>
    /\ UNCHANGED <<timerRef, intervals, added, created, requests>>
    /\ activityFrame

\* addGPSPoint(point): the point is pushed to the buffer; with an activity,
\* uploadPendingPoints(id, false) posts the buffer once it holds
\* UPLOAD_BATCH_SIZE points or more.
addGPSPoint ==
    /\ added < MaxPoints
    /\ added' = added + 1
    /\ pendingPoints' = Append(pendingPoints, added + 1)
    /\ actCall' = ActCall("addGPSPoint", TRUE, <<>>)
    /\ IF activity.activityId # <<>> /\ Len(pendingPoints') >= UPLOAD_BATCH_SIZE
       THEN /\ Len(inflight) < MaxInFlight
            /\ inflight' = Append(inflight,
                    Operation("upload", "upload", activity.activityId, pendingPoints'))
       ELSE UNCHANGED inflight
    /\ UNCHANGED <<activity, timerRef, intervals, created, requests>>
    /\ activityFrame

batchUploadResponds(i, ok) ==
    /\ i \in 1..Len(inflight)
    /\ inflight[i].op = "upload"
    /\ inflight' = Without(inflight, i)
    /\ actCall' = ActCall("uploadResponds", ok, inflight[i].points)
    /\ pendingPoints' = IF ok THEN <<>> ELSE pendingPoints
    /\ UNCHANGED <<activity, timerRef, intervals, added, created, requests>>
    /\ activityFrame

\* resetActivity(): stopTimer(); pendingPointsRef.current = []; setState(initial).
resetActivity ==
    /\ requests < MaxRequests
    /\ requests' = requests + 1
    /\ actCall' = ActCall("resetActivity", TRUE, <<>>)
    /\ timerRef' = timerStopped.timerRef
    /\ intervals' = timerStopped.intervals
    /\ pendingPoints' = <<>>
    /\ activity' = InitialActivity
    /\ UNCHANGED <<inflight, added, created>>
    /\ activityFrame

\* An interval fires: setState(prev => prev.status !== 'recording' ? prev : ...).
timerTick ==
    /\ intervals > 0
    /\ activity.elapsedTime < MaxTicks
    /\ actCall' = ActCall("timerTick", activity.status = "recording", <<>>)
    /\ activity' = IF activity.status # "recording" THEN activity
                   ELSE [activity EXCEPT !.elapsedTime = @ + 1, !.activeTime = @ + 1]
    /\ UNCHANGED <<timerRef, intervals, pendingPoints, inflight, added, created, requests>>
    /\ activityFrame

\* The provider has just been mounted.
ActivityIdle ==
    /\ activity = InitialActivity
    /\ timerRef = FALSE
    /\ intervals = 0
    /\ pendingPoints = <<>>
    /\ inflight = <<>>
    /\ added = 0
    /\ created = 0
    /\ requests = 0
    /\ actCall = ActCall("mount", TRUE, <<>>)

(***************************************************************************)
(* Life cycle of one useLocationTracking instance (the Hook session):     *)
(* the effect on the isTracking prop calls the asynchronous startTracking  *)
(* and stopTracking, whose awaits interleave.  instances[Hook].isTracking  *)
(* is the prop.  A call in flight is the name of the await it stands at.   *)
(***************************************************************************)
Hook == 1

lifeFrame == UNCHANGED <<accVars, routeVars, geoVars, builderVars, activityVars,
                         clock, commands, hookCall>>

\* stopTracking() up to its first await:
\* if (locationSubscription.current) { locationSubscription.current.remove();
\*                                     locationSubscription.current = null; }
removed(ref, active) ==
    IF ref # <<>> THEN [ref |-> <<>>, active |-> active \ {ref[1]}]
    ELSE [ref |-> ref, active |-> active]

\* The effect on [isTracking]: the clean-up of the previous run calls
\* stopTracking(), then the new run calls startTracking() or stopTracking().
\* Each call runs to its first await.
effectIsTracking ==
    /\ toggles < MaxToggles
    /\ toggles' = toggles + 1
    /\ LET tracking == ~instances[Hook].isTracking
           r == removed(locationSubscription, subscriptions)
       IN  /\ instances' = [instances EXCEPT ![Hook].isTracking = tracking]
           /\ locationSubscription' = r.ref
           /\ subscriptions' = r.active
           /\ startCalls' = IF tracking THEN Append(startCalls, "permissions")
                            ELSE startCalls
           /\ stopCalls' = IF tracking THEN Append(stopCalls, "isRegistered")
                           ELSE stopCalls \o <<"isRegistered", "isRegistered">>
           /\ lifeCall' = IF tracking THEN "effect:start" ELSE "effect:stop"
    /\ UNCHANGED <<backgroundPoints, taskRegistered, deliveries, watched>>
    /\ lifeFrame

\* const hasPermission = await requestPermissions(); if (!hasPermission) return false;
\* requestPermissions sets the error when the foreground permission is denied
\* and when the request throws.
PermissionOutcomes == {"granted", "denied", "throws"}

permissionsResolve(i, outcome) ==
    /\ i \in DOMAIN startCalls
    /\ startCalls[i] = "permissions"
    /\ startCalls' = IF outcome = "granted" THEN [startCalls EXCEPT ![i] = "position"]
                     ELSE Without(startCalls, i)
    /\ instances' =
           IF outcome = "granted" THEN instances
           ELSE [instances EXCEPT ![Hook].updateQueue =
                    Append(@, ErrorUpdate(IF outcome = "denied"
                                          THEN "Location permission denied"
                                          ELSE "Failed to get location permissions"))]
    /\ lifeCall' = "permissions"
    /\ UNCHANGED <<locationSubscription, subscriptions, stopCalls, watched, toggles,
                   backgroundPoints, taskRegistered, deliveries>>
    /\ lifeFrame

\* const initialLocation = await Location.getCurrentPositionAsync(...);
\* processLocation(initialLocation);  A rejection goes to the catch block.
positionResolves(i, ok, location) ==
    /\ i \in DOMAIN startCalls
    /\ startCalls[i] = "position"
    /\ startCalls' = IF ok THEN [startCalls EXCEPT ![i] = "watch"]
                     ELSE Without(startCalls, i)
    /\ instances' = [instances EXCEPT ![Hook] =
                        IF ok THEN fedTo(@, location)
                        ELSE [@ EXCEPT !.updateQueue =
                                 Append(@, ErrorUpdate("Failed to start location tracking"))]]
    /\ deliveries' = IF ok THEN deliveries + 1 ELSE deliveries
    /\ lifeCall' = "position"
    /\ UNCHANGED <<locationSubscription, subscriptions, stopCalls, watched, toggles,
                   backgroundPoints, taskRegistered>>
    /\ lifeFrame

\* locationSubscription.current = await Location.watchPositionAsync(..., processLocation);
\* the subscription exists once the promise resolves and is stored in the ref,
\* over whatever the ref held.
watchResolves(i, ok) ==
    /\ i \in DOMAIN startCalls
    /\ startCalls[i] = "watch"
    /\ IF ok
       THEN /\ watched' = watched + 1
            /\ subscriptions' = subscriptions \cup {watched + 1}
            /\ locationSubscription' = <<watched + 1>>
            /\ startCalls' = [startCalls EXCEPT ![i] = "background"]
            /\ UNCHANGED instances
       ELSE /\ startCalls' = Without(startCalls, i)
            /\ instances' = [instances EXCEPT ![Hook].updateQueue =
                                Append(@, ErrorUpdate("Failed to start location tracking"))]
            /\ UNCHANGED <<watched, subscriptions, locationSubscription>>
    /\ lifeCall' = "watch"
    /\ UNCHANGED <<stopCalls, toggles, backgroundPoints, taskRegistered, deliveries>>
    /\ lifeFrame

\* await Location.startLocationUpdatesAsync(LOCATION_TASK_NAME, ...); return true;
backgroundResolves(i, ok) ==
    /\ i \in DOMAIN startCalls
    /\ startCalls[i] = "background"
    /\ startCalls' = Without(startCalls, i)
    /\ taskRegistered' = IF ok THEN TRUE ELSE taskRegistered
    /\ instances' = IF ok THEN instances
                    ELSE [instances EXCEPT ![Hook].updateQueue =
                             Append(@, ErrorUpdate("Failed to start location tracking"))]
    /\ lifeCall' = "background"
    /\ UNCHANGED <<locationSubscription, subscriptions, stopCalls, watched, toggles,
                   backgroundPoints, deliveries>>
    /\ lifeFrame

\* The rest of stopTracking() after its awaits: the buffer is merged and
\* emptied.
stopTrackingEnds(j) ==
    /\ stopCalls' = Without(stopCalls, j)
    /\ \E eager \in EagerChoices(instances[Hook]) :
           instances' = [instances EXCEPT ![Hook] = mergedInto(@, eager)]
    /\ backgroundPoints' = <<>>

\* const isRegistered = await TaskManager.isTaskRegisteredAsync(LOCATION_TASK_NAME);
\* if (isRegistered) { await Location.stopLocationUpdatesAsync(...) }
\* A rejection goes to the catch block, which only logs.
isRegisteredResolves(j, ok) ==
    /\ j \in DOMAIN stopCalls
    /\ stopCalls[j] = "isRegistered"
    /\ IF ok /\ taskRegistered
       THEN /\ stopCalls' = [stopCalls EXCEPT ![j] = "stopUpdates"]
            /\ UNCHANGED <<instances, backgroundPoints>>
       ELSE IF ok
       THEN stopTrackingEnds(j)
       ELSE /\ stopCalls' = Without(stopCalls, j)
            /\ UNCHANGED <<instances, backgroundPoints>>
    /\ lifeCall' = "isRegistered"
    /\ UNCHANGED <<locationSubscription, subscriptions, startCalls, watched, toggles,
                   taskRegistered, deliveries>>
    /\ lifeFrame

\* await Location.stopLocationUpdatesAsync(LOCATION_TASK_NAME), then the merge.
stopUpdatesResolves(j, ok) ==
    /\ j \in DOMAIN stopCalls
    /\ stopCalls[j] = "stopUpdates"
    /\ IF ok
       THEN /\ taskRegistered' = FALSE
            /\ stopTrackingEnds(j)
       ELSE /\ stopCalls' = Without(stopCalls, j)
            /\ UNCHANGED <<taskRegistered, instances, backgroundPoints>>
    /\ lifeCall' = "stopUpdates"
    /\ UNCHANGED <<locationSubscription, subscriptions, startCalls, watched, toggles,
                   deliveries>>
    /\ lifeFrame

\* A foreground subscription that has not been removed delivers a fix to
\* processLocation.
subscriptionDelivers(id, location) ==
    /\ id \in subscriptions
    /\ deliveries < MaxDeliveries
    /\ deliveries' = deliveries + 1
    /\ instances' = [instances EXCEPT ![Hook] = fedTo(@, location)]
    /\ lifeCall' = "delivery"
    /\ UNCHANGED <<locationSubscription, subscriptions, startCalls, stopCalls, watched,
                   toggles, backgroundPoints, taskRegistered>>
    /\ lifeFrame

\* No effect of the hook has run.
NotMounted ==
    /\ locationSubscription = <<>>
    /\ subscriptions = {}
    /\ startCalls = <<>>
    /\ stopCalls = <<>>
    /\ watched = 0
    /\ toggles = 0
    /\ lifeCall = "none"

\* The hook has just been mounted with isTracking false: the first run of the
\* effect has called stopTracking(), which stands at its first await.
Mounted ==
    /\ locationSubscription = <<>>
    /\ subscriptions = {}
    /\ startCalls = <<>>
    /\ stopCalls = <<"isRegistered">>
    /\ watched = 0
    /\ toggles = 0
    /\ lifeCall = "mount"

Init ==
    /\ mounted \in {"hook", "screen"}
    /\ state = InitialState
    /\ lastLocation = <<>>
    /\ updateQueue = <<>>
    /\ routeCoordinates = <<>>
    /\ trackedDistance = 0
    /\ lastLocationRef = <<>>
    /\ screenQueue = <<>>
    /\ fed = 0
    /\ resets = 0
    /\ call = [op |-> "mount", point |-> <<>>]
    /\ forwarded = <<>>
    /\ waypoints = <<>>
    /\ gpsTrack = <<>>
    /\ progress = checkWaypointProgress(<<>>, <<>>)
    /\ measured = NoMeasurement
    /\ NotTracking
    /\ BuilderClosed
    /\ ActivityIdle
    /\ NotMounted

Next ==
    \/ \E location \in Locations : processLocation(location)
    \/ resetTracking
    \/ applyUpdate
    \/ \E location \in Locations : screenProcessLocation(location)
    \/ handleStart
    \/ handleStopDiscard
    \/ screenApplyUpdate

vars == <<accVars, routeVars, geoVars, trackVars, builderVars, activityVars, lifeVars>>

Spec == Init /\ [][Next]_vars

\* The route challenge alone: a route of up to MaxWaypoints waypoints is given
\* and fixes are recorded one after the other.
RouteInit ==
    /\ mounted = "none"
    /\ state = InitialState
    /\ lastLocation = <<>>
    /\ updateQueue = <<>>
    /\ routeCoordinates = <<>>
    /\ trackedDistance = 0
    /\ lastLocationRef = <<>>
    /\ screenQueue = <<>>
    /\ fed = 0
    /\ resets = 0
    /\ call = [op |-> "mount", point |-> <<>>]
    /\ forwarded = <<>>
    /\ waypoints \in SeqsUpTo(RouteWaypoints, MaxWaypoints)
    /\ gpsTrack = <<>>
    /\ progress = checkWaypointProgress(waypoints, <<>>)
    /\ measured = NoMeasurement
    /\ NotTracking
    /\ BuilderClosed
    /\ ActivityIdle
    /\ NotMounted

RouteNext == \E point \in TrackPoints : recordFixAndCheck(point)

RouteSpec == RouteInit /\ [][RouteNext]_vars

\* The distance primitive alone: distances of pairs of grid points.
DistanceInit ==
    /\ mounted = "none"
    /\ state = InitialState
    /\ lastLocation = <<>>
    /\ updateQueue = <<>>
    /\ routeCoordinates = <<>>
    /\ trackedDistance = 0
    /\ lastLocationRef = <<>>
    /\ screenQueue = <<>>
    /\ fed = 0
    /\ resets = 0
    /\ call = [op |-> "mount", point |-> <<>>]
    /\ forwarded = <<>>
    /\ waypoints = <<>>
    /\ gpsTrack = <<>>
    /\ progress = checkWaypointProgress(<<>>, <<>>)
    /\ measured = NoMeasurement
    /\ NotTracking
    /\ BuilderClosed
    /\ ActivityIdle
    /\ NotMounted

DistanceNext == \E a \in GridPoints, b \in GridPoints : measureDistance(a, b)

DistanceSpec == DistanceInit /\ [][DistanceNext]_vars

\* Hook instances with the background task.
TrackingInit ==
    /\ mounted = "none"
    /\ state = InitialState
    /\ lastLocation = <<>>
    /\ updateQueue = <<>>
    /\ routeCoordinates = <<>>
    /\ trackedDistance = 0
    /\ lastLocationRef = <<>>
    /\ screenQueue = <<>>
    /\ fed = 0
    /\ resets = 0
    /\ call = [op |-> "mount", point |-> <<>>]
    /\ forwarded = <<>>
    /\ waypoints = <<>>
    /\ gpsTrack = <<>>
    /\ progress = checkWaypointProgress(<<>>, <<>>)
    /\ measured = NoMeasurement
    /\ NotTracking
    /\ BuilderClosed
    /\ ActivityIdle
    /\ NotMounted

TrackingNext ==
    \/ \E s \in Sessions, location \in TrackedLocations : startTracking(s, location)
    \/ \E s \in Sessions, location \in TrackedLocations : watchPosition(s, location)
    \/ \E location \in TrackedLocations : backgroundTask(location)
    \/ \E s \in Sessions : stopTracking(s)
    \/ \E s \in Sessions : appStateActive(s)
    \/ \E s \in Sessions : resetTrackingOf(s)
    \/ \E s \in Sessions : renderHook(s)
    \/ tick

TrackingSpec == TrackingInit /\ [][TrackingNext]_vars

\* The route builder and the pending-waypoints store.
BuilderInit ==
    /\ mounted = "none"
    /\ state = InitialState
    /\ lastLocation = <<>>
    /\ updateQueue = <<>>
    /\ routeCoordinates = <<>>
    /\ trackedDistance = 0
    /\ lastLocationRef = <<>>
    /\ screenQueue = <<>>
    /\ fed = 0
    /\ resets = 0
    /\ call = [op |-> "mount", point |-> <<>>]
    /\ forwarded = <<>>
    /\ waypoints = <<>>
    /\ gpsTrack = <<>>
    /\ progress = checkWaypointProgress(<<>>, <<>>)
    /\ measured = NoMeasurement
    /\ NotTracking
    /\ BuilderClosed
    /\ ActivityIdle
    /\ NotMounted

BuilderNext ==
    \/ \E param \in ExistingParams : openBuilder(param)
    \/ \E mode \in {"tap", "search"} : toggleAddMode(mode)
    \/ \E latitude \in BuilderLatitudes : handleMapPress(latitude)
    \/ \E place \in Places : selectSearchResult(place)
    \/ \E index \in 0..(MaxRoute - 1) : removeWaypoint(index)
    \/ \E index \in 0..(MaxRoute - 1), latitude \in BuilderLatitudes :
           handleMarkerDragEnd(index, latitude)
    \/ \E index \in 0..(MaxRoute - 1), newName \in WaypointNames :
           editWaypointName(index, newName)
    \/ handleSave
    \/ goBack
    \/ consume

BuilderSpec == BuilderInit /\ [][BuilderNext]_vars

\* The activity context.
ActivityInit ==
    /\ mounted = "none"
    /\ state = InitialState
    /\ lastLocation = <<>>
    /\ updateQueue = <<>>
    /\ routeCoordinates = <<>>
    /\ trackedDistance = 0
    /\ lastLocationRef = <<>>
    /\ screenQueue = <<>>
    /\ fed = 0
    /\ resets = 0
    /\ call = [op |-> "mount", point |-> <<>>]
    /\ forwarded = <<>>
    /\ waypoints = <<>>
    /\ gpsTrack = <<>>
    /\ progress = checkWaypointProgress(<<>>, <<>>)
    /\ measured = NoMeasurement
    /\ NotTracking
    /\ BuilderClosed
    /\ ActivityIdle
    /\ NotMounted

ActivityNext ==
    \/ startActivity
    \/ \E i \in 1..MaxInFlight, ok \in BOOLEAN : startResponds(i, ok)
    \/ pauseActivity
    \/ \E i \in 1..MaxInFlight, ok \in BOOLEAN : pauseResponds(i, ok)
    \/ \E i \in 1..MaxInFlight, ok \in BOOLEAN : pauseUploadResponds(i, ok)
    \/ resumeActivity
    \/ \E i \in 1..MaxInFlight, ok \in BOOLEAN : resumeResponds(i, ok)
    \/ stopActivity
    \/ \E i \in 1..MaxInFlight, ok \in BOOLEAN : stopUploadResponds(i, ok)
    \/ \E i \in 1..MaxInFlight, ok \in BOOLEAN : stopResponds(i, ok)
    \/ discardActivity
    \/ \E i \in 1..MaxInFlight, ok \in BOOLEAN : discardResponds(i, ok)
    \/ addGPSPoint
    \/ \E i \in 1..MaxInFlight, ok \in BOOLEAN : batchUploadResponds(i, ok)
    \/ resetActivity
    \/ timerTick

ActivitySpec == ActivityInit /\ [][ActivityNext]_vars

\* One hook instance through changes of its isTracking prop, with every
\* await of startTracking and stopTracking answered in any order.
LifecycleInit ==
    /\ mounted = "hook"
    /\ state = InitialState
    /\ lastLocation = <<>>
    /\ updateQueue = <<>>
    /\ routeCoordinates = <<>>
    /\ trackedDistance = 0
    /\ lastLocationRef = <<>>
    /\ screenQueue = <<>>
    /\ fed = 0
    /\ resets = 0
    /\ call = [op |-> "mount", point |-> <<>>]
    /\ forwarded = <<>>
    /\ waypoints = <<>>
    /\ gpsTrack = <<>>
    /\ progress = checkWaypointProgress(<<>>, <<>>)
    /\ measured = NoMeasurement
    /\ NotTracking
    /\ BuilderClosed
    /\ ActivityIdle
    /\ Mounted

LifecycleNext ==
    \/ effectIsTracking
    \/ \E i \in 1..MaxToggles, outcome \in PermissionOutcomes :
           permissionsResolve(i, outcome)
    \/ \E i \in 1..MaxToggles, ok \in BOOLEAN, location \in TrackedLocations :
           positionResolves(i, ok, location)
    \/ \E i \in 1..MaxToggles, ok \in BOOLEAN : watchResolves(i, ok)
    \/ \E i \in 1..MaxToggles, ok \in BOOLEAN : backgroundResolves(i, ok)
    \/ \E j \in 1..(2 * MaxToggles + 1), ok \in BOOLEAN : isRegisteredResolves(j, ok)
    \/ \E j \in 1..(2 * MaxToggles + 1), ok \in BOOLEAN : stopUpdatesResolves(j, ok)
    \/ \E id \in 1..MaxToggles, location \in TrackedLocations :
           subscriptionDelivers(id, location)
    \/ renderHook(Hook)

LifecycleSpec == LifecycleInit /\ [][LifecycleNext]_vars
(***************************************************************************)
(* Properties of the distance accumulator.                                 *)
(***************************************************************************)
\* The great-circle distance of two positions on the meridian, in metres.
GreatCircle(a, b) == Abs(a.latitude - b.latitude)

\* What a segment contributes to the total: itself strictly between the two
\* limits, nothing otherwise.
Counted(segment) == IF MinSegment < segment /\ segment < MaxSegment THEN segment ELSE 0

RECURSIVE SumCounted(_)
SumCounted(route) ==
    IF Len(route) < 2 THEN 0
    ELSE SumCounted(SubSeq(route, 1, Len(route) - 1))
         + Counted(GreatCircle(route[Len(route) - 1], route[Len(route)]))

LatitudesOf(route) == [i \in 1..Len(route) |-> route[i].latitude]

\* The accuracy is present and greater than 50.
TooInaccurate(p) == p.accuracy # <<>> /\ p.accuracy[1] > AccuracyLimit

\* The step is a processLocation call (of either component) with this verdict.
FedRejected == call'.op = "processLocation" /\ TooInaccurate(call'.point[1])
FedAccepted == call'.op = "processLocation" /\ ~TooInaccurate(call'.point[1])

\* C1: feeding a sample and applying its update never lower the accumulated
\* distance; the distance gets lower only in a step that applies a reset.
C1_DistanceMonotone ==
    [][/\ (call'.op # "applyReset" =>
              /\ state'.distance >= state.distance
              /\ trackedDistance' >= trackedDistance)
       /\ (call'.op = "applyReset" => state'.distance = 0 /\ trackedDistance' = 0)]_vars

\* Several counted segments have been accumulated.
C1_Witness == mounted = "hook" /\ state.distance > MaxSegment

\* C2: a processLocation call with a sample whose accuracy is present and
\* greater than 50 changes neither the total, nor the anchor, nor the recorded
\* track, nor the queue of updates still to be applied.
C2_RejectedIgnored ==
    [][FedRejected =>
          UNCHANGED <<state, lastLocation, updateQueue, routeCoordinates,
                      trackedDistance, lastLocationRef, screenQueue>>]_vars

\* A sample was rejected while an anchor was in place.
C2_Witness ==
    /\ mounted = "hook"
    /\ call.op = "processLocation"
    /\ TooInaccurate(call.point[1])
    /\ lastLocation # <<>>
    /\ state.distance > 0

\* C3: processLocation drops a sample exactly when its accuracy is present and
\* greater than 50; a sample with accuracy 50 or with no accuracy is queued, and
\* is the anchor once its update has been applied.
C3_FilterExact ==
    [][/\ (FedRejected => updateQueue' = updateQueue /\ screenQueue' = screenQueue)
       /\ (FedAccepted /\ mounted = "hook" =>
              updateQueue' = Append(updateQueue, LocationUpdate(call'.point[1])))
       /\ (FedAccepted /\ mounted = "screen" =>
              /\ Len(screenQueue') = Len(screenQueue) + 1
              /\ screenQueue'[Len(screenQueue')].point = call'.point
              /\ lastLocationRef' = call'.point)
       /\ (call'.op = "applyLocation" /\ mounted = "hook" =>
              /\ updateQueue # <<>>
              /\ call'.point = Head(updateQueue).point
              /\ lastLocation' = call'.point)]_vars

\* A sample with accuracy exactly 50 is the anchor.
C3_Witness ==
    /\ mounted = "hook"
    /\ lastLocation # <<>>
    /\ lastLocation[1].accuracy = <<AccuracyLimit>>
    /\ call.op = "applyLocation"

\* C4: when the update of an accepted sample is applied with an anchor in
\* place, the total grows by the segment from the anchor to the sample if the
\* segment is strictly between 2 and 100, and by nothing otherwise.  In the screen
\* the segment is measured when the sample is fed and added when its update is
\* applied.
C4_SegmentRule ==
    [][/\ (call'.op = "applyLocation" /\ mounted = "hook" /\ lastLocation # <<>> =>
              state'.distance
                  = state.distance + Counted(GreatCircle(lastLocation[1], call'.point[1])))
       /\ (FedAccepted /\ mounted = "screen" /\ lastLocationRef # <<>> =>
              LET u == screenQueue'[Len(screenQueue')]
                  seg == Counted(GreatCircle(lastLocationRef[1], call'.point[1]))
              IN  (IF u.add = <<>> THEN 0 ELSE u.add[1]) = seg)
       /\ (call'.op = "applyLocation" /\ mounted = "screen" =>
              LET u == Head(screenQueue) IN
              trackedDistance'
                  = trackedDistance + (IF u.add = <<>> THEN 0 ELSE u.add[1]))]_vars

\* A segment of 97 was added and a segment of exactly 100 was not.
C4_Witness ==
    /\ mounted = "hook"
    /\ LatitudesOf(state.routeCoordinates) = <<3, 100, 0>>
    /\ state.distance = 97
    /\ resets = 0

\* C5: every sample that passes the accuracy filter becomes the anchor, whether
\* or not its segment was counted (hook: when its update is applied; screen:
\* when it is fed).  So, while no reset has been requested, the total is the sum
\* of the counted segments between consecutive samples of the track.
C5_AnchorAdvances ==
    [][/\ (call'.op = "applyLocation" /\ mounted = "hook" => lastLocation' = call'.point)
       /\ (FedAccepted /\ mounted = "screen" => lastLocationRef' = call'.point)
       /\ (resets' = 0 =>
              /\ state'.distance = SumCounted(state'.routeCoordinates)
              /\ trackedDistance' = SumCounted(routeCoordinates'))]_vars

\* The segment 0 -> 100 was dropped and the next sample was measured from 100.
C5_Witness ==
    /\ mounted = "hook"
    /\ LatitudesOf(state.routeCoordinates) = <<0, 100, 3>>
    /\ state.distance = 97
    /\ lastLocation # <<>>
    /\ lastLocation[1].latitude = 3

\* C6: with no anchor in place, an accepted sample becomes the anchor and the
\* total stays as it is: 0 on a fresh accumulator.
C6_FirstSampleAnchors ==
    [][/\ (call'.op = "applyLocation" /\ mounted = "hook" /\ lastLocation = <<>> =>
              /\ state'.distance = state.distance
              /\ lastLocation' = call'.point)
       /\ (mounted = "hook" /\ resets' = 0 /\ Len(state'.routeCoordinates) = 1 =>
              state'.distance = 0)
       /\ (FedAccepted /\ mounted = "screen" /\ lastLocationRef = <<>> =>
              /\ screenQueue'[Len(screenQueue')].add = <<>>
              /\ lastLocationRef' = call'.point)]_vars

\* The first sample, away from the origin, is the anchor and the total is 0.
C6_Witness ==
    /\ mounted = "hook"
    /\ resets = 0
    /\ Len(state.routeCoordinates) = 1
    /\ state.routeCoordinates[1].latitude = 102
    /\ lastLocation = <<state.routeCoordinates[1]>>
    /\ state.distance = 0

\* C7: once the reset of resetTracking has been applied, the total is 0, the
\* recorded track is empty and there is no anchor.
C7_ResetClears ==
    (mounted = "hook" /\ call.op = "applyReset") =>
        /\ state.distance = 0
        /\ state.routeCoordinates = <<>>
        /\ lastLocation = <<>>

(***************************************************************************)
(* Properties of the route geofencing.                                     *)
(***************************************************************************)
\* The fix lies in the geofence of the waypoint.
Inside(point, wp) == Abs(point.latitude - wp.latitude) <= wp.radius_meters

\* The track holds, in track order, distinct fixes s_1 .. s_j with s_i in the
\* geofence of the i-th waypoint.
OrderedVisits(j) ==
    \E f \in [1..j -> 1..Len(gpsTrack)] :
        /\ \A i \in 1..(j - 1) : f[i] < f[i + 1]
        /\ \A i \in 1..j : Inside(gpsTrack[f[i]], waypoints[i])

\* C8: a waypoint is flagged reached only if the track holds, in order, one
\* distinct fix per waypoint up to it, each in its waypoint's geofence: a fix in
\* the geofence of a later waypoint does not count while an earlier waypoint is
\* uncleared.
C8_InOrderOnly ==
    \A j \in 1..Len(waypoints) :
        progress.reachedWaypoints[j] => OrderedVisits(j)

\* The first fix lies in the geofence of the second waypoint only and nothing
\* has been reached, although later fixes were recorded.
C8_Witness ==
    /\ Len(waypoints) = 2
    /\ Len(gpsTrack) >= 2
    /\ Inside(gpsTrack[1], waypoints[2])
    /\ ~Inside(gpsTrack[1], waypoints[1])
    /\ progress.reachedIndex = -1
    /\ ~progress.reachedWaypoints[2]

\* C9: if the track holds, in order, one distinct fix per waypoint, each in its
\* waypoint's geofence, then all waypoints are cleared and reachedIndex is the
\* last index, whatever other fixes lie between them.
C9_FullClear ==
    OrderedVisits(Len(waypoints)) =>
        /\ progress.allCleared
        /\ progress.reachedIndex = Len(waypoints) - 1

\* Two waypoints cleared by the first and the third fix; the second fix lies in
\* neither geofence.
C9_Witness ==
    /\ Len(waypoints) = 2
    /\ Len(gpsTrack) = 3
    /\ ~Inside(gpsTrack[2], waypoints[1])
    /\ ~Inside(gpsTrack[2], waypoints[2])
    /\ ~Inside(gpsTrack[1], waypoints[2])
    /\ progress.allCleared
    /\ progress.reachedIndex = 1

\* C10: the flags have one entry per waypoint, flag i (from 0) is true exactly
\* for i <= reachedIndex, and reachedIndex is -1 exactly when no waypoint was
\* reached.
C10_FlagsMatchIndex ==
    /\ Len(progress.reachedWaypoints) = Len(waypoints)
    /\ progress.reachedIndex \in -1..(Len(waypoints) - 1)
    /\ \A k \in 1..Len(waypoints) :
           progress.reachedWaypoints[k] <=> (k - 1 <= progress.reachedIndex)
    /\ (progress.reachedIndex = -1) <=>
           (\A k \in 1..Len(waypoints) : ~progress.reachedWaypoints[k])

\* The first of two waypoints was reached, the second was not.
C10_Witness ==
    /\ Len(waypoints) = 2
    /\ Len(gpsTrack) >= 2
    /\ progress.reachedIndex = 0
    /\ progress.reachedWaypoints = <<TRUE, FALSE>>

\* C11: allCleared is true exactly when every waypoint, the end waypoint
\* included, is flagged reached, which is exactly when reachedIndex is the last
\* index.
C11_AllClearedIff ==
    /\ progress.allCleared <=>
           (\A k \in 1..Len(waypoints) : progress.reachedWaypoints[k])
    /\ progress.allCleared <=> (progress.reachedIndex = Len(waypoints) - 1)

\* Only the first of two waypoints is reached and allCleared is false, two
\* fixes having been recorded.
C11_Witness ==
    /\ Len(waypoints) = 2
    /\ Len(gpsTrack) = 2
    /\ progress.reachedWaypoints[1]
    /\ ~progress.reachedWaypoints[2]
    /\ ~progress.allCleared

\* C12: with no waypoints or no fixes the result is defined, reachedIndex is -1
\* and allCleared is true exactly when there are no waypoints.
C12_EmptyInputs ==
    (waypoints = <<>> \/ gpsTrack = <<>>) =>
        /\ progress.reachedIndex = -1
        /\ progress.allCleared = (Len(waypoints) = 0)
        /\ Len(progress.reachedWaypoints) = Len(waypoints)

\* No waypoints and a track of several fixes.
C12_Witness ==
    /\ waypoints = <<>>
    /\ Len(gpsTrack) >= 2
    /\ progress.allCleared
    /\ progress.reachedIndex = -1

\* C14: for every prefix of the track the progress is at most the progress for
\* the whole track: reachedIndex is not greater and every flag set for the prefix
\* is set for the whole track.
C14_NoRegress ==
    \A n \in 0..Len(gpsTrack) :
        LET before == checkWaypointProgress(waypoints, SubSeq(gpsTrack, 1, n)) IN
        /\ before.reachedIndex <= progress.reachedIndex
        /\ \A k \in 1..Len(waypoints) :
               before.reachedWaypoints[k] => progress.reachedWaypoints[k]

\* The first fix cleared the first waypoint, the second fix lies in it again
\* and not in the second geofence, and the first waypoint is still reached.
C14_Witness ==
    /\ Len(waypoints) = 2
    /\ Len(gpsTrack) = 2
    /\ checkWaypointProgress(waypoints, SubSeq(gpsTrack, 1, 1)).reachedIndex = 0
    /\ Inside(gpsTrack[2], waypoints[1])
    /\ ~Inside(gpsTrack[2], waypoints[2])
    /\ progress.reachedIndex = 0

\* C15: while a waypoint is still required, a new fix clears it (reachedIndex
\* grows by one) exactly when the great-circle distance from the fix to the
\* centre of that waypoint is at most its radius; otherwise reachedIndex stays.
C15_RadiusInclusive ==
    [][LET cleared == progress.reachedIndex + 1
           fix == gpsTrack'[Len(gpsTrack')]
       IN  (Len(gpsTrack') = Len(gpsTrack) + 1 /\ cleared < Len(waypoints)) =>
               LET wp == waypoints[cleared + 1]
                   within == GreatCircle(fix, wp) <= wp.radius_meters
               IN  /\ within => progress'.reachedIndex = progress.reachedIndex + 1
                   /\ ~within => progress'.reachedIndex = progress.reachedIndex]_vars

\* The only fix lies exactly on the radius of the first waypoint and cleared it.
C15_Witness ==
    /\ Len(waypoints) >= 1
    /\ Len(gpsTrack) = 1
    /\ GreatCircle(gpsTrack[1], waypoints[1]) = waypoints[1].radius_meters
    /\ progress.reachedIndex = 0

(***************************************************************************)
(* Properties of the distance primitive.                                   *)
(***************************************************************************)
\* C16: the distance of a point to itself is 0, the distance is the same in
\* both directions and it is never negative: for both implementations on the
\* grid points, and for the distances along the meridian used by the
\* accumulators and the geofencing.
C16_DistanceLaws ==
    /\ measured.haversineMeters >= 0
    /\ measured.calculateDistance >= 0
    /\ measured.a = measured.b =>
           measured.haversineMeters = 0 /\ measured.calculateDistance = 0
    /\ measured.haversineMeters = haversineMetersGrid(measured.b, measured.a)
    /\ measured.calculateDistance = calculateDistanceGrid(measured.b, measured.a)
    /\ \A p \in TrackPoints, q \in TrackPoints :
           /\ haversineMeters(p, q) >= 0
           /\ haversineMeters(p, q) = haversineMeters(q, p)
           /\ haversineMeters(p, p) = 0
           /\ calculateDistance(p, q) >= 0
           /\ calculateDistance(p, q) = calculateDistance(q, p)
           /\ calculateDistance(p, p) = 0

\* Two points that differ in latitude and in longitude, a quarter turn apart.
C16_Witness ==
    /\ measured.a.latitude # measured.b.latitude
    /\ measured.a.longitude # measured.b.longitude
    /\ measured.haversineMeters > 0
    /\ measured.haversineMeters = measured.calculateDistance
    /\ measured.haversineMeters = ArcMeters(1)

\* C17: no sample puts the accumulator in an error state.  A sample rejected
\* for accuracy changes nothing at all (no state, no ref, nothing queued); a
\* sample whose segment is dropped as noise leaves the total as it was; and
\* after feeding a sample or applying its update the error field is still null.
C17_NoErrorState ==
    [][/\ (call'.op \in {"processLocation", "applyLocation"} =>
              /\ state'.error = <<>>
              /\ state'.error = state.error)
       /\ (FedRejected =>
              UNCHANGED <<state, lastLocation, updateQueue,
                          routeCoordinates, trackedDistance, lastLocationRef, screenQueue>>)
       /\ (/\ mounted = "hook"
           /\ call'.op = "applyLocation"
           /\ lastLocation # <<>>
           /\ Counted(GreatCircle(lastLocation[1], call'.point[1])) = 0
           => state'.distance = state.distance)]_vars

\* One sample was rejected and the segment of the other two was dropped as a
\* jump: the total is still 0 and there is no error.
C17_Witness ==
    /\ mounted = "hook"
    /\ call.op = "applyLocation"
    /\ fed = 3
    /\ LatitudesOf(state.routeCoordinates) = <<0, 100>>
    /\ state.distance = 0
    /\ state.error = <<>>

\* C19: discarding resets the accumulation of the tracking screen: when the
\* Discard handler has run there is no last-accepted sample, and once its
\* clearing update has been applied the total is 0 and the track is empty.
C19_DiscardResets ==
    mounted = "screen" =>
        /\ (call.op = "handleStopDiscard" => lastLocationRef = <<>>)
        /\ (call.op = "applyReset" => trackedDistance = 0 /\ routeCoordinates = <<>>)

(***************************************************************************)
(* Properties of concurrent hook instances and the background buffer.      *)
(***************************************************************************)
\* C18: two tracking sessions share no state.  A step of one session (a fix
\* accepted, a merge, a stop, a reset, an update applied) leaves the other
\* session's state (total, track), its anchor, its queued updates and the
\* points getAllPoints returns for it, unmerged background points included,
\* as they were.
C18_SessionsIndependent ==
    [][\A s \in Sessions, o \in Sessions :
          (hookCall'.session = s /\ o # s) =>
              /\ instances'[o] = instances[o]
              /\ getAllPoints(instances'[o], backgroundPoints')
                     = getAllPoints(instances[o], backgroundPoints)]_vars

\* The timestamps of the points never go back along the list.
InTimestampOrder(points) ==
    \A i \in 1..Len(points), j \in 1..Len(points) :
        i < j => points[i].timestamp <= points[j].timestamp

\* C20: in every instance routeCoordinates, and the list getAllPoints returns,
\* are in non-decreasing timestamp order.
C20_TrackInTimestampOrder ==
    \A s \in Sessions :
        /\ InTimestampOrder(instances[s].state.routeCoordinates)
        /\ InTimestampOrder(getAllPoints(instances[s], backgroundPoints))

\* C21: every point of the recorded track of an instance, background points
\* included, went through the accept step: it passed the accuracy filter, and
\* when no update of the instance is waiting the last point of the track is
\* the anchor.
C21_TrackWasAccepted ==
    \A s \in Sessions :
        LET inst == instances[s]
            route == inst.state.routeCoordinates
        IN  /\ \A i \in 1..Len(route) : ~TooInaccurate(route[i])
            /\ (inst.updateQueue = <<>> /\ route # <<>> =>
                    inst.lastLocation = <<route[Len(route)]>>)

(***************************************************************************)
(* Properties of the route builder and the pending-waypoints store.        *)
(***************************************************************************)
\* At least two waypoints, order 0 .. n-1 in list position, 'start' first,
\* 'end' last, 'checkpoint' between.
WellFormedRoute(wps) ==
    /\ Len(wps) >= 2
    /\ \A i \in 1..Len(wps) :
           /\ wps[i].order = i - 1
           /\ wps[i].waypoint_type =
                  (IF i = 1 THEN "start" ELSE IF i = Len(wps) THEN "end" ELSE "checkpoint")

\* C22: every waypoint list handed off by handleSave has at least two
\* waypoints, orders 0 .. n-1 in list position, one 'start' at order 0, one
\* 'end' at the highest order and 'checkpoint' for the others.
C22_HandOffWellFormed ==
    pendingWaypoints # <<>> => WellFormedRoute(pendingWaypoints[1])

\* C23: the store is consume-once.  consumePendingWaypoints returns what is
\* pending and empties the slot, so a consume that follows a consume with no
\* set in between returns null; a hand-off replaces whatever was pending; no
\* other operation touches the slot or the returned value.
C23_ConsumeOnce ==
    [][/\ (builderCall' = "consumePendingWaypoints" =>
              /\ consumed' = pendingWaypoints
              /\ pendingWaypoints' = <<>>
              /\ (builderCall = "consumePendingWaypoints" => consumed' = <<>>))
       /\ (builderCall' = "handleSave" /\ Len(builder.waypoints) >= 2 =>
              /\ pendingWaypoints' = <<builder.waypoints>>
              /\ consumed' = consumed)
       /\ (builderCall' \notin {"consumePendingWaypoints", "handleSave"} =>
              UNCHANGED <<pendingWaypoints, consumed>>)]_vars

\* A consume returned the list that was pending and left the slot empty.
C23_Witness ==
    /\ builderCall = "consumePendingWaypoints"
    /\ consumed = <<StoredList>>
    /\ pendingWaypoints = <<>>

\* C24: one fix clears at most one waypoint.  The number of cleared waypoints
\* (reachedIndex + 1) never exceeds the number of fixes in the track, and a
\* single fix that lies in the geofences of the first and of the second
\* waypoint clears only the first.
C24_OneWaypointPerFix ==
    /\ progress.reachedIndex + 1 <= Len(gpsTrack)
    /\ (/\ Len(gpsTrack) = 1
        /\ Len(waypoints) = 2
        /\ Inside(gpsTrack[1], waypoints[1])
        /\ Inside(gpsTrack[1], waypoints[2])
        => /\ progress.reachedIndex = 0
           /\ progress.reachedWaypoints = <<TRUE, FALSE>>)

\* The only fix lies in both geofences and the pointer stands after the first
\* waypoint.
C24_Witness ==
    /\ Len(gpsTrack) = 1
    /\ Len(waypoints) = 2
    /\ Inside(gpsTrack[1], waypoints[1])
    /\ Inside(gpsTrack[1], waypoints[2])
    /\ waypoints[1].latitude # waypoints[2].latitude
    /\ progress.reachedIndex = 0
    /\ ~progress.allCleared

(***************************************************************************)
(* Further properties of the distance accumulator.                         *)
(***************************************************************************)
\* C25: a sample that passes the accuracy filter is passed to the update
\* callback once, in the call that received it, and is queued once, behind
\* the samples received before it; when its update is applied it is appended
\* to the end of the recorded track, whether or not its segment was added to
\* the total.  A rejected sample is neither queued nor passed on, and no
\* other step passes anything to the callback.
C25_AppendedAndForwarded ==
    [][/\ (FedAccepted =>
              /\ forwarded' = call'.point
              /\ (mounted = "hook" =>
                     updateQueue' = Append(updateQueue, LocationUpdate(call'.point[1])))
              /\ (mounted = "screen" =>
                     /\ Len(screenQueue') = Len(screenQueue) + 1
                     /\ screenQueue'[Len(screenQueue')].point = call'.point
                     /\ SubSeq(screenQueue', 1, Len(screenQueue)) = screenQueue))
       /\ (FedRejected =>
              /\ forwarded' = <<>>
              /\ UNCHANGED <<updateQueue, screenQueue, state, routeCoordinates>>)
       /\ (call'.op # "processLocation" => forwarded' = <<>>)
       /\ (call'.op = "applyLocation" =>
              /\ (mounted = "hook" =>
                     /\ call'.point = Head(updateQueue).point
                     /\ state'.routeCoordinates
                            = Append(state.routeCoordinates, call'.point[1]))
              /\ (mounted = "screen" =>
                     /\ call'.point = Head(screenQueue).point
                     /\ routeCoordinates' = Append(routeCoordinates, call'.point[1])))]_vars

\* The hook's track holds both samples although the segment between them, a
\* jump of 102 m, was not added to the total.
C25_Witness ==
    /\ mounted = "hook"
    /\ call.op = "applyLocation"
    /\ LatitudesOf(state.routeCoordinates) = <<0, 102>>
    /\ state.distance = 0
    /\ updateQueue = <<>>

(***************************************************************************)
(* Further properties of the hook instances and the background buffer.     *)
(***************************************************************************)
\* C26: no background point is lost or duplicated by a merge.  When the
\* update of a merge is applied, the track grows by exactly the points the
\* buffer held when the merge was requested, each of them once.
C26_MergeKeepsPoints ==
    [][\A s \in Sessions :
          (/\ hookCall'.session = s
           /\ hookCall'.op = "render"
           /\ Head(instances[s].updateQueue).kind = "merge")
          => instances'[s].state.routeCoordinates
                 = instances[s].state.routeCoordinates
                       \o Head(instances[s].updateQueue).pushed]_vars

(***************************************************************************)
(* Properties of the activity context.                                     *)
(***************************************************************************)
PointsOf(seq) == {seq[k] : k \in 1..Len(seq)}

\* C27: apart from a discard or a reset of the activity, a point leaves the
\* pending buffer only in the step in which an upload request that contained
\* it succeeds: a failed upload removes nothing, and a point added while the
\* upload was in flight stays.
C27_PointsLeaveOnlyUploaded ==
    [][actCall'.op \notin {"discardResponds", "resetActivity"} =>
          PointsOf(pendingPoints) \ PointsOf(pendingPoints')
              \subseteq (IF actCall'.op = "uploadResponds" /\ actCall'.ok
                         THEN PointsOf(actCall'.points)
                         ELSE {})]_vars

\* The step is the answer to a request of this operation; an upload answered
\* inside pauseActivity counts as its answer.
Answered(op) == actCall'.op = op

\* C28: the status changes only when a backend call succeeded, or on a reset,
\* and only from idle to recording (start), from recording to paused (pause),
\* from paused to recording (resume), to completed (stop) and to idle
\* (discard, reset).  A pauseActivity call outside recording and a
\* resumeActivity call outside paused change nothing, and a failed call
\* leaves status and activityId as they were.
C28_StatusTransitions ==
    [][/\ (activity'.status # activity.status =>
              \/ /\ Answered("startResponds") /\ actCall'.ok
                 /\ activity.status = "idle" /\ activity'.status = "recording"
              \/ /\ Answered("pauseResponds") /\ actCall'.ok
                 /\ activity.status = "recording" /\ activity'.status = "paused"
              \/ /\ Answered("uploadResponds")
                 /\ activity.status = "recording" /\ activity'.status = "paused"
              \/ /\ Answered("resumeResponds") /\ actCall'.ok
                 /\ activity.status = "paused" /\ activity'.status = "recording"
              \/ /\ Answered("stopResponds") /\ actCall'.ok
                 /\ activity'.status = "completed"
              \/ /\ Answered("discardResponds") /\ actCall'.ok
                 /\ activity'.status = "idle"
              \/ /\ Answered("resetActivity")
                 /\ activity'.status = "idle")
       /\ (Answered("pauseActivity") /\ activity.status # "recording" =>
              UNCHANGED <<activity, timerRef, intervals, pendingPoints, inflight>>)
       /\ (Answered("resumeActivity") /\ activity.status # "paused" =>
              UNCHANGED <<activity, timerRef, intervals, pendingPoints, inflight>>)
       /\ (~actCall'.ok /\ actCall'.op \in {"startResponds", "pauseResponds",
                                            "resumeResponds", "stopResponds",
                                            "discardResponds"} =>
              /\ activity'.status = activity.status
              /\ activity'.activityId = activity.activityId)]_vars

\* C29: the timer agrees with the status.  There is at most one interval;
\* elapsedTime and activeTime grow only on a tick that sees status
\* 'recording' and are otherwise changed only by being set to 0; and when the
\* status is 'recording' and no operation is in flight, the timer is running.
C29_TimerMatchesStatus ==
    [][/\ intervals' <= 1
       /\ (activity'.elapsedTime # activity.elapsedTime
               \/ activity'.activeTime # activity.activeTime =>
              \/ /\ Answered("timerTick")
                 /\ activity.status = "recording"
                 /\ activity'.elapsedTime = activity.elapsedTime + 1
                 /\ activity'.activeTime = activity.activeTime + 1
              \/ /\ actCall'.op \in {"startResponds", "discardResponds", "resetActivity"}
                 /\ activity'.elapsedTime = 0
                 /\ activity'.activeTime = 0)
       /\ (activity'.status = "recording" /\ inflight' = <<>> =>
              timerRef' /\ intervals' = 1)]_vars

(***************************************************************************)
(* Properties of the hook's life cycle.                                    *)
(***************************************************************************)
\* C30: once isTracking has gone false and every started startTracking and
\* stopTracking call has finished, no foreground location subscription
\* remains active.
C30_NoSubscriptionLeftActive ==
    (/\ toggles > 0
     /\ ~instances[Hook].isTracking
     /\ startCalls = <<>>
     /\ stopCalls = <<>>)
        => subscriptions = {}

====
